---- MODULE Spec2Model ----
(***************************************************************************)
(* Model of src/whisperx-service/app.py: the speaker-attributed            *)
(* transcription service.  Threads of the HTTP worker pool run the         *)
(* /analyze and /ready handlers against the lazily built module-level      *)
(* singletons (_whisper_model, _diarize_pipeline, the gender and emotion   *)
(* classifiers), the registry lock _state_lock and the orchestration gate  *)
(* _analyze_lock.                                                          *)
(***************************************************************************)
EXTENDS Integers, Sequences, FiniteSets, TLC

(***************************************************************************)
(* Paths.  A path is a sequence of one-character strings.  The alphabet    *)
(* is cut down to four characters and BASE_DIR to "/d"; the operators      *)
(* below are os.path.isabs, os.path.join, os.path.normpath and             *)
(* str.startswith as CPython's posixpath computes them.                    *)
(***************************************************************************)
PathChars == {"/", ".", "d", "f"}

BASE_DIR == <<"/", "d">>

\* The files and directories that exist on the machine, as normalised
\* absolute paths: /, /d, /d/f, /dd, /dd/f and /f.
ExistingPaths ==
    { <<"/">>, <<"/", "d">>, <<"/", "d", "/", "f">>, <<"/", "d", "d">>,
      <<"/", "d", "d", "/", "f">>, <<"/", "f">> }

isabs(p) == Len(p) > 0 /\ p[1] = "/"

startswith(s, prefix) ==
    /\ Len(prefix) <= Len(s)
    /\ SubSeq(s, 1, Len(prefix)) = prefix


\* str.split("/"): the components between slashes, empty ones included.
RECURSIVE split(_)
split(p) ==
    IF \A i \in 1..Len(p) : p[i] # "/"
    THEN <<p>>
    ELSE LET i == CHOOSE j \in 1..Len(p) :
                      p[j] = "/" /\ \A k \in 1..(j - 1) : p[k] # "/"
         IN  <<SubSeq(p, 1, i - 1)>> \o split(SubSeq(p, i + 1, Len(p)))

\* "/".join(comps)
RECURSIVE join(_)
join(comps) ==
    IF Len(comps) = 0 THEN <<>>
    ELSE IF Len(comps) = 1 THEN comps[1]
    ELSE comps[1] \o <<"/">> \o join(Tail(comps))

DotDot == <<".", ".">>

\* The loop of posixpath.normpath over the components, for an absolute path
\* (initial_slashes is non-zero on every path the service normalises).
RECURSIVE new_comps(_, _)
new_comps(comps, acc) ==
    IF Len(comps) = 0 THEN acc
    ELSE LET comp == comps[1]
             rest == Tail(comps)
         IN  IF comp = <<>> \/ comp = <<".">> THEN new_comps(rest, acc)
             ELSE IF comp # DotDot \/ (Len(acc) > 0 /\ acc[Len(acc)] = DotDot)
                  THEN new_comps(rest, Append(acc, comp))
             ELSE IF Len(acc) > 0
                  THEN new_comps(rest, SubSeq(acc, 1, Len(acc) - 1))
             ELSE new_comps(rest, acc)

\* posixpath.normpath on an absolute path: exactly two leading slashes are
\* kept, any other number collapses to one.
initial_slashes(p) ==
    IF startswith(p, <<"/", "/">>) /\ ~startswith(p, <<"/", "/", "/">>)
    THEN <<"/", "/">> ELSE <<"/">>

normpath(p) == initial_slashes(p) \o join(new_comps(split(p), <<>>))

\* os.path.abspath on an absolute path is normpath.
abspath(p) == normpath(p)

\* os.path.join(BASE_DIR, p) for a relative p.
join_base(p) == BASE_DIR \o <<"/">> \o p

\* os.path.exists: "//x" names the same file as "/x".
exists(p) ==
    LET q == IF startswith(p, <<"/", "/">>) THEN Tail(p) ELSE p
    IN  q \in ExistingPaths

\* resolve_audio_path: the HTTP status it raises (400, 404), or 200 with
\* the path it returns.
audio_path_of(p) == IF isabs(p) THEN abspath(p) ELSE abspath(join_base(p))

resolve_audio_path(p) ==
    IF p = <<>> THEN [status |-> 400, path |-> <<>>]
    ELSE LET audio_path == audio_path_of(p)
         IN  IF ~startswith(audio_path, abspath(BASE_DIR))
             THEN [status |-> 400, path |-> <<>>]
             ELSE IF ~exists(audio_path)
             THEN [status |-> 404, path |-> <<>>]
             ELSE [status |-> 200, path |-> audio_path]

\* The place in the directory tree a normalised absolute path names: its
\* list of components.
location(p) == new_comps(split(p), <<>>)

\* The location is the storage root or a descendant of it.
InsideRoot(p) ==
    LET root == location(BASE_DIR)
        loc  == location(p)
    IN  Len(root) <= Len(loc) /\ SubSeq(loc, 1, Len(root)) = root

(***************************************************************************)
(* Time is counted in ticks of a tenth of a second, audio in samples; an   *)
(* audio buffer is modelled by its number of samples (and, for a synthetic *)
(* array, the voiced pitch that is in it).  A transcript                   *)
(* segment is [start, end] (its text plays no part in the orchestration),  *)
(* a diarization row is [start, end, speaker].                             *)
(***************************************************************************)
Max2(a, b) == IF a >= b THEN a ELSE b
Min2(a, b) == IF a <= b THEN a ELSE b
Abs(a) == IF a >= 0 THEN a ELSE 0 - a

\* Samples per tick at the 16 kHz of load_audio_mono_16k.
SAMPLES_PER_TICK == 1600

\* min_total_sec = 1.2 and max_total_sec = 25.0, in ticks.
MIN_TOTAL_TICKS == 12
MAX_TOTAL_TICKS == 250

\* Length in samples of the audio file every request analyses (30 s).
AUDIO_SAMPLES == 480000

overlap(seg, row) ==
    Max2(0, Min2(seg.end, row.end) - Max2(seg.start, row.start))

\* Mutant: ">=" for ">" at line 376, a later row with the same overlap wins.
RECURSIVE best_by_overlap_last_tie(_, _, _)
best_by_overlap_last_tie(seg, rows, best) ==
    IF Len(rows) = 0 THEN best
    ELSE LET row == rows[1]
             ov  == overlap(seg, row)
         IN  best_by_overlap_last_tie(seg, Tail(rows),
                 IF ov >= best.best_overlap /\ ov > 0
                 THEN [best_overlap |-> ov, best_speaker |-> row.speaker]
                 ELSE best)

\* Overlap phase: the state [best_overlap, best_speaker] after the rows.
RECURSIVE best_by_overlap(_, _, _)
best_by_overlap(seg, rows, best) ==
    IF Len(rows) = 0 THEN best
    ELSE LET row == rows[1]
             ov  == overlap(seg, row)
         IN  best_by_overlap(seg, Tail(rows),
                 IF ov > best.best_overlap
                 THEN [best_overlap |-> ov, best_speaker |-> row.speaker]
                 ELSE best)

\* Mutant: "<=" for "<" at line 387, a later row at the same distance wins.
RECURSIVE closest_by_midpoint_last_tie(_, _, _)
closest_by_midpoint_last_tie(seg, rows, best) ==
    IF Len(rows) = 0 THEN best
    ELSE LET row  == rows[1]
             dist == Abs((seg.start + seg.end) - (row.start + row.end))
         IN  closest_by_midpoint_last_tie(seg, Tail(rows),
                 IF best.min_dist = -1 \/ dist <= best.min_dist
                 THEN [min_dist |-> dist, best_speaker |-> row.speaker]
                 ELSE best)

\* Mutant: min_dist starts at 0.0 instead of infinity, so the fallback never
\* takes a row.
closest_by_midpoint_from_zero(seg, rows, best) == best

\* Midpoint fallback; distances are doubled to stay integral and
\* min_dist = -1 stands for float("inf").
RECURSIVE closest_by_midpoint(_, _, _)
closest_by_midpoint(seg, rows, best) ==
    IF Len(rows) = 0 THEN best
    ELSE LET row  == rows[1]
             dist == Abs((seg.start + seg.end) - (row.start + row.end))
         IN  closest_by_midpoint(seg, Tail(rows),
                 IF best.min_dist = -1 \/ dist < best.min_dist
                 THEN [min_dist |-> dist, best_speaker |-> row.speaker]
                 ELSE best)

\* The speaker given to one segment when diar_rows is not empty.
assign_speaker(seg, rows) ==
    LET best == best_by_overlap(seg, rows,
                    [best_overlap |-> 0, best_speaker |-> "SPEAKER_UNKNOWN"])
    IN  IF best.best_overlap = 0
        THEN closest_by_midpoint(seg, rows,
                 [min_dist |-> -1, best_speaker |-> best.best_speaker]).best_speaker
        ELSE best.best_speaker

\* Mutant: lines 395-398 dropped, without rows the initial best_speaker of
\* line 364 is what a segment gets.
assign_speakers_unknown_without_rows(segs, rows) ==
    [i \in 1..Len(segs) |->
        [start |-> segs[i].start, end |-> segs[i].end,
         speaker |-> IF Len(rows) > 0 THEN assign_speaker(segs[i], rows)
                     ELSE "SPEAKER_UNKNOWN"]]

\* Step 3 of analyze: final_segments.
assign_speakers(segs, rows) ==
    [i \in 1..Len(segs) |->
        [start |-> segs[i].start, end |-> segs[i].end,
         speaker |-> IF Len(rows) > 0 THEN assign_speaker(segs[i], rows)
                     ELSE "SPEAKER_0"]]

\* The keys of by_spk in insertion order.
RECURSIVE speaker_order(_, _)
speaker_order(rows, acc) ==
    IF Len(rows) = 0 THEN acc
    ELSE speaker_order(Tail(rows),
             IF \E i \in 1..Len(acc) : acc[i] = rows[1].speaker
             THEN acc ELSE Append(acc, rows[1].speaker))

\* by_spk[spk]
RECURSIVE rows_of(_, _)
rows_of(rows, spk) ==
    IF Len(rows) = 0 THEN <<>>
    ELSE (IF rows[1].speaker = spk
          THEN <<[start |-> rows[1].start, end |-> rows[1].end]>> ELSE <<>>)
         \o rows_of(Tail(rows), spk)

\* full_y[a:b] of an array of n samples, as the range of samples it holds:
\* a negative index counts from the end, an index past the end is the end.
slice_index(n, x) == IF x < 0 THEN Max2(0, n + x) ELSE Min2(x, n)
slice(n, a, b) ==
    <<slice_index(n, a), Max2(slice_index(n, a), slice_index(n, b))>>

\* np.concatenate(clips): the number of samples of the clips together.
RECURSIVE concatenate(_)
concatenate(clips) ==
    IF Len(clips) = 0 THEN 0
    ELSE (clips[1][2] - clips[1][1]) + concatenate(Tail(clips))

\* The loop of concat_speaker_audio: clips are the sample ranges
\* appended so far, total is the variable of that name, in samples.
RECURSIVE concat_loop(_, _, _, _, _)
concat_loop(full_len, sr, rows, max_total, acc) ==
    IF Len(rows) = 0 THEN acc
    ELSE LET r    == rows[1]
             rest == Tail(rows)
             a    == r.start * sr
             b    == Min2(r.end * sr, full_len)
             clip == slice(full_len, a, b)
         IN  IF r.end <= r.start \/ a >= full_len \/ clip[2] - clip[1] <= 0
             THEN concat_loop(full_len, sr, rest, max_total, acc)
             ELSE LET next == [clips |-> Append(acc.clips, clip),
                               total |-> acc.total + (b - a)]
                  IN  IF next.total >= max_total * sr THEN next
                      ELSE concat_loop(full_len, sr, rest, max_total, next)

\* None, as returned at line 116.  f0v is the voiced pitch of a synthetic
\* array, <<number of voiced frames, median in Hz>>; the audio of a file
\* has <<>> there, its pitch is whatever PitchStats holds.
NoBuffer ==
    [none |-> TRUE, clips |-> <<>>, samples |-> 0, total |-> 0, f0v |-> <<>>]

\* concat_speaker_audio: none, or the concatenated buffer: its clips, the
\* number of its samples, and the total the loop had accumulated.
concat_speaker_audio(full_len, sr, speaker_rows, min_total, max_total) ==
    LET acc == concat_loop(full_len, sr, speaker_rows, max_total,
                           [clips |-> <<>>, total |-> 0])
    IN  IF acc.total < min_total * sr
        THEN NoBuffer
        ELSE [none |-> FALSE, clips |-> acc.clips,
              samples |-> concatenate(acc.clips), total |-> acc.total,
              f0v |-> <<>>]

(***************************************************************************)
(* The service.                                                            *)
(***************************************************************************)
\* Worker threads of the HTTP server, requests served in one run, and
\* collaborator failures (a constructor, a model call or a file operation
\* raising) injected in one run.
NThreads == 2
MaxRequests == 2
MaxFaults == 2

Threads == 1..NThreads

\* The audio_path values requests carry: "", "f" (the file /d/f), "d"
\* (/d/d, which does not exist) and "../f" (/f, outside the root).
RequestPaths == { <<>>, <<"f">>, <<"d">>, <<".", ".", "/", "f">> }

\* What whisper_model.transcribe returns: the segments.
Transcripts ==
    { <<[start |-> 0, end |-> 20], [start |-> 100, end |-> 105]>> }

\* What the diarization pipeline returns: the rows.
DiarOutputs ==
    { <<>>,
      <<[start |-> 0, end |-> 50, speaker |-> "A"],
        [start |-> 200, end |-> 205, speaker |-> "B"],
        [start |-> 60, end |-> 70, speaker |-> "A"]>> }

VARIABLES
    ENABLE_DIARIZATION, ENABLE_GENDER, ENABLE_EMOTION,
    state_lock, analyze_lock,
    whisper_model, diarize_pipeline,
    gender_ok, gender_extractor, gender_model,
    emotion_ok, emotion_clf,
    pc, handler, loc, last,
    ctor_calls, ctor_failed, requests, faults

flags == <<ENABLE_DIARIZATION, ENABLE_GENDER, ENABLE_EMOTION>>
handles == <<whisper_model, diarize_pipeline, gender_ok, gender_extractor,
             gender_model, emotion_ok, emotion_clf>>
counts == <<ctor_calls, ctor_failed>>
vars == <<flags, state_lock, analyze_lock, handles, pc, handler, loc, last,
          counts, requests, faults>>

Kinds == {"whisper", "diarize", "gender", "emotion"}

\* The locals of a request.  y_spk is the aggregated audio of the speaker
\* being classified.  touched: the request has invoked a constructor
\* or a model.  first: the acquire in progress found its kind unset, in the
\* unlocked check, before any constructor of the kind had been called.
\* report: the values health has evaluated so far for the dict it returns.
NoLocals ==
    [path |-> <<>>, audio_path |-> <<>>, segments |-> <<>>, diar_rows |-> <<>>,
     final_segments |-> <<>>, todo |-> <<>>, speakers |-> <<>>,
     y_spk |-> NoBuffer,
     gender |-> <<"unknown", "null">>, age |-> <<"unknown", "null">>,
     touched |-> FALSE, first |-> FALSE, report |-> <<>>]

\* last is the response sent last: the worker that sent it, whether its
\* request had touched a constructor or a model, the kind of the response
\* sent before it (prev) and the response itself.  No response has been
\* sent yet:
NoResponse == [thread |-> 0, kind |-> "none"]

Init ==
    /\ ENABLE_DIARIZATION \in BOOLEAN
    /\ ENABLE_GENDER \in BOOLEAN
    /\ ENABLE_EMOTION \in BOOLEAN
    /\ state_lock = 0
    /\ analyze_lock = 0
    /\ whisper_model = 0
    /\ diarize_pipeline = 0
    /\ gender_ok = FALSE
    /\ gender_extractor = 0
    /\ gender_model = 0
    /\ emotion_ok = FALSE
    /\ emotion_clf = 0
    /\ pc = [t \in Threads |-> "idle"]
    /\ handler = [t \in Threads |-> "none"]
    /\ loc = [t \in Threads |-> NoLocals]
    /\ last = NoResponse
    /\ ctor_calls = [k \in Kinds |-> 0]
    /\ ctor_failed = [k \in Kinds |-> 0]
    /\ requests = 0
    /\ faults = 0

\* A collaborator may raise.
MayFail == faults < MaxFaults
Fault == faults' = faults + 1

Goto(t, label) == pc' = [pc EXCEPT ![t] = label]
Touch(t) == [loc EXCEPT ![t].touched = TRUE]

\* Mutant: the gate is released by the return at line 457 only, not on the
\* exception paths.
release_analyze_lock_on_success(t) ==
    IF handler[t] = "analyze" /\ pc[t] = "respond" THEN 0 ELSE analyze_lock

\* Mutant: the gate is taken with acquire() and never given back.
release_analyze_lock_never(t) == analyze_lock

\* Leaving "with _analyze_lock": the gate after the handler of t has
\* returned or raised.
release_analyze_lock(t) == IF handler[t] = "analyze" THEN 0 ELSE analyze_lock

\* The handler of t returns (or raises HTTPException with) response r;
\* touched tells whether it invoked a constructor or a model.
ReturnAfter(t, r, touched) ==
    /\ pc' = [pc EXCEPT ![t] = "idle"]
    /\ handler' = [handler EXCEPT ![t] = "none"]
    /\ loc' = [loc EXCEPT ![t] = NoLocals]
    /\ last' = [thread |-> t, touched |-> touched, prev |-> last.kind] @@ r
    /\ analyze_lock' = release_analyze_lock(t)

Return(t, r) == ReturnAfter(t, r, loc[t].touched)

\* Mutant: no "except Exception", the exception leaves the handler.
on_exception_unhandled(t, what) == [kind |-> "raised", message |-> what]

\* "except Exception as e" of the handler of t: the response for an
\* exception raised by what.
on_exception(t, what) ==
    IF handler[t] = "analyze"
    THEN [kind |-> "error", error |-> "whisperx_internal_error", message |-> what]
    ELSE [kind |-> "ready", ok |-> FALSE, error |-> what]

\* An exception out of a constructor already counted in touched, and out of
\* a model call made in this step.
Raise(t, what) == Return(t, on_exception(t, what))
RaiseInCall(t, what) == ReturnAfter(t, on_exception(t, what), TRUE)

(***************************************************************************)
(* Requests arrive.                                                        *)
(***************************************************************************)
\* POST /analyze with audio_path p is handed to the idle worker t, which
\* reaches "with _analyze_lock".
analyze_start(t, p) ==
    /\ pc[t] = "idle"
    /\ requests < MaxRequests
    /\ requests' = requests + 1
    /\ pc' = [pc EXCEPT ![t] = "gate"]
    /\ handler' = [handler EXCEPT ![t] = "analyze"]
    /\ loc' = [loc EXCEPT ![t] = [NoLocals EXCEPT !.path = p]]
    /\ UNCHANGED <<flags, state_lock, analyze_lock, handles, last, counts, faults>>

\* GET /ready is handed to the idle worker t, which calls get_whisper_model.
ready_start(t) ==
    /\ pc[t] = "idle"
    /\ requests < MaxRequests
    /\ requests' = requests + 1
    /\ pc' = [pc EXCEPT ![t] = "whisper_check"]
    /\ handler' = [handler EXCEPT ![t] = "ready"]
    /\ loc' = [loc EXCEPT ![t] = NoLocals]
    /\ UNCHANGED <<flags, state_lock, analyze_lock, handles, last, counts, faults>>

\* Mutant: the gate does not exclude.
analyze_lock_ignored(t) == TRUE

\* The gate can be entered by t.
analyze_lock_free(t) == analyze_lock = 0

\* "with _analyze_lock:" is entered.
analyze_enter(t) ==
    /\ pc[t] = "gate"
    /\ analyze_lock_free(t)
    /\ analyze_lock' = t
    /\ Goto(t, "resolve")
    /\ UNCHANGED <<flags, state_lock, handles, handler, loc, last, counts,
                   requests, faults>>

\* audio_path = resolve_audio_path(req.audio_path); HTTPException is
\* re-raised by the handler.
analyze_resolve(t) ==
    /\ pc[t] = "resolve"
    /\ LET r == resolve_audio_path(loc[t].path)
       IN  IF r.status # 200
           THEN /\ Return(t, [kind |-> "http", status |-> r.status])
                /\ UNCHANGED <<flags, state_lock, handles, counts, requests, faults>>
           ELSE /\ loc' = [loc EXCEPT ![t].audio_path = r.path]
                /\ Goto(t, "whisper_check")
                /\ UNCHANGED <<flags, state_lock, analyze_lock, handles, handler,
                               last, counts, requests, faults>>

(***************************************************************************)
(* The lazy singletons.  A handle is 0 (None) or the number of the         *)
(* constructor call that built it.                                         *)
(***************************************************************************)
\* Where ready() goes on after each acquire.
ready_after_gender == IF ENABLE_EMOTION THEN "emotion_check" ELSE "ready_return"
ready_after_diarize == IF ENABLE_GENDER THEN "gender_check" ELSE ready_after_gender
ready_after_whisper == IF ENABLE_DIARIZATION THEN "diar_check" ELSE ready_after_diarize

\* Where the caller of each acquire goes on when it returns.
after_whisper(t) == IF handler[t] = "analyze" THEN "transcribe" ELSE ready_after_whisper
after_diarize(t) == IF handler[t] = "analyze" THEN "diarize" ELSE ready_after_diarize
after_gender(t, ok) ==
    IF handler[t] = "ready" THEN ready_after_gender
    ELSE IF ok THEN "gender_infer" ELSE "age_emotion"

\* Mutant: the lock is acquired without "with" and never released.
release_state_lock_forgotten(t) == t

\* Leaving "with _state_lock", by return or by exception.
release_state_lock(t) == 0

\* A constructor of kind k is called by t.
Construct(t, k) ==
    /\ ctor_calls' = [ctor_calls EXCEPT ![k] = @ + 1]
    /\ UNCHANGED ctor_failed
    /\ loc' = Touch(t)

\* The constructor of kind k raised.
Failed(k) ==
    /\ ctor_failed' = [ctor_failed EXCEPT ![k] = @ + 1]
    /\ UNCHANGED ctor_calls

\* The locals of t once its unlocked check found kind k unset.
FirstTime(t, k) ==
    [loc EXCEPT ![t].first = (ctor_calls[k] = 0)]

\* The locals of t once its acquire has returned.
Acquired(t) == [loc EXCEPT ![t].first = FALSE]

\* get_whisper_model, line 143: the unlocked check.
get_whisper_model_check(t) ==
    /\ pc[t] = "whisper_check"
    /\ IF whisper_model # 0
       THEN Goto(t, after_whisper(t)) /\ UNCHANGED loc
       ELSE Goto(t, "whisper_lock") /\ loc' = FirstTime(t, "whisper")
    /\ UNCHANGED <<flags, state_lock, analyze_lock, handles, handler, last,
                   counts, requests, faults>>

\* Mutant: line 146 dropped, every thread that gets the lock builds.
whisper_model_unchecked == TRUE

\* Line 146: the check under the lock.
whisper_model_is_None == whisper_model = 0

\* Lines 145-147: the lock is taken; the model is built if still None.
get_whisper_model_lock(t) ==
    /\ pc[t] = "whisper_lock"
    /\ state_lock = 0
    /\ IF whisper_model_is_None
       THEN /\ state_lock' = t
            /\ Construct(t, "whisper")
            /\ Goto(t, "whisper_ctor")
       ELSE /\ Goto(t, after_whisper(t))
            /\ loc' = Acquired(t)
            /\ UNCHANGED <<state_lock, counts>>
    /\ UNCHANGED <<flags, analyze_lock, handles, handler, last, requests, faults>>

\* WhisperModel(...) returns and is stored.
get_whisper_model_built(t) ==
    /\ pc[t] = "whisper_ctor"
    /\ whisper_model' = ctor_calls["whisper"]
    /\ state_lock' = release_state_lock(t)
    /\ Goto(t, after_whisper(t))
    /\ loc' = Acquired(t)
    /\ UNCHANGED <<flags, analyze_lock, diarize_pipeline, gender_ok, gender_extractor,
                   gender_model, emotion_ok, emotion_clf, handler, last,
                   counts, requests, faults>>

\* WhisperModel(...) raises: the lock is left and the handler catches.
get_whisper_model_raises(t) ==
    /\ pc[t] = "whisper_ctor"
    /\ MayFail /\ Fault
    /\ state_lock' = release_state_lock(t)
    /\ Failed("whisper")
    /\ Raise(t, "WhisperModel")
    /\ UNCHANGED <<flags, handles, requests>>

\* get_diarize_pipeline, lines 157-160.
get_diarize_pipeline_check(t) ==
    /\ pc[t] = "diar_check"
    /\ IF ~ENABLE_DIARIZATION \/ diarize_pipeline # 0
       THEN Goto(t, after_diarize(t)) /\ UNCHANGED loc
       ELSE Goto(t, "diar_lock") /\ loc' = FirstTime(t, "diarize")
    /\ UNCHANGED <<flags, state_lock, analyze_lock, handles, handler, last,
                   counts, requests, faults>>

\* Line 162: the check under the lock.
diarize_pipeline_is_None == diarize_pipeline = 0

\* Lines 161-163.
get_diarize_pipeline_lock(t) ==
    /\ pc[t] = "diar_lock"
    /\ state_lock = 0
    /\ IF diarize_pipeline_is_None
       THEN /\ state_lock' = t
            /\ Construct(t, "diarize")
            /\ Goto(t, "diar_ctor")
       ELSE /\ Goto(t, after_diarize(t))
            /\ loc' = Acquired(t)
            /\ UNCHANGED <<state_lock, counts>>
    /\ UNCHANGED <<flags, analyze_lock, handles, handler, last, requests, faults>>

\* DiarizationPipeline(...) returns and is stored.
get_diarize_pipeline_built(t) ==
    /\ pc[t] = "diar_ctor"
    /\ diarize_pipeline' = ctor_calls["diarize"]
    /\ state_lock' = release_state_lock(t)
    /\ Goto(t, after_diarize(t))
    /\ loc' = Acquired(t)
    /\ UNCHANGED <<flags, analyze_lock, whisper_model, gender_ok, gender_extractor,
                   gender_model, emotion_ok, emotion_clf, handler, last,
                   counts, requests, faults>>

\* DiarizationPipeline(...) raises.
get_diarize_pipeline_raises(t) ==
    /\ pc[t] = "diar_ctor"
    /\ MayFail /\ Fault
    /\ state_lock' = release_state_lock(t)
    /\ Failed("diarize")
    /\ Raise(t, "DiarizationPipeline")
    /\ UNCHANGED <<flags, handles, requests>>

\* Line 177: the gender classifier is loaded.
gender_loaded == gender_ok /\ gender_extractor # 0 /\ gender_model # 0

\* Mutant: lines 181-182 dropped, the try block is entered regardless.
gender_loaded_unchecked == FALSE

\* Line 181: the same check under the lock.
gender_loaded_locked == gender_ok /\ gender_extractor # 0 /\ gender_model # 0

\* Mutant: the except block forgets the extractor it had loaded.
gender_after_failure_keeps_extractor ==
    [ok |-> FALSE, extractor |-> gender_extractor, model |-> 0]

\* Lines 190-192: the state the except block leaves.
gender_after_failure == [ok |-> FALSE, extractor |-> 0, model |-> 0]

\* init_gender_model_if_needed, lines 173-178, before the lock.
init_gender_check(t) ==
    /\ pc[t] = "gender_check"
    /\ IF ~ENABLE_GENDER
       THEN /\ gender_ok' = FALSE
            /\ Goto(t, after_gender(t, FALSE))
            /\ UNCHANGED loc
       ELSE /\ IF gender_loaded
               THEN Goto(t, after_gender(t, TRUE)) /\ UNCHANGED loc
               ELSE Goto(t, "gender_lock") /\ loc' = FirstTime(t, "gender")
            /\ UNCHANGED gender_ok
    /\ UNCHANGED <<flags, state_lock, analyze_lock, whisper_model, diarize_pipeline,
                   gender_extractor, gender_model, emotion_ok, emotion_clf, handler,
                   last, counts, requests, faults>>

\* Lines 180-183: the lock is taken and the try block entered unless the
\* classifier is loaded by now.
init_gender_lock(t) ==
    /\ pc[t] = "gender_lock"
    /\ state_lock = 0
    /\ IF gender_loaded_locked
       THEN /\ Goto(t, after_gender(t, TRUE))
            /\ loc' = Acquired(t)
            /\ UNCHANGED <<state_lock, counts>>
       ELSE /\ state_lock' = t
            /\ Construct(t, "gender")
            /\ Goto(t, "gender_extractor")
    /\ UNCHANGED <<flags, analyze_lock, handles, handler, last, requests, faults>>

\* Line 184: AutoFeatureExtractor.from_pretrained returns.
init_gender_extractor(t) ==
    /\ pc[t] = "gender_extractor"
    /\ gender_extractor' = ctor_calls["gender"]
    /\ Goto(t, "gender_model")
    /\ UNCHANGED <<flags, state_lock, analyze_lock, whisper_model, diarize_pipeline,
                   gender_ok, gender_model, emotion_ok, emotion_clf, handler, loc,
                   last, counts, requests, faults>>

\* Lines 185-188: the model is loaded and the classifier marked ready.
init_gender_model(t) ==
    /\ pc[t] = "gender_model"
    /\ gender_model' = ctor_calls["gender"]
    /\ gender_ok' = TRUE
    /\ state_lock' = release_state_lock(t)
    /\ Goto(t, after_gender(t, TRUE))
    /\ loc' = Acquired(t)
    /\ UNCHANGED <<flags, analyze_lock, whisper_model, diarize_pipeline,
                   gender_extractor, emotion_ok, emotion_clf, handler, last,
                   counts, requests, faults>>

\* Lines 189-193: either from_pretrained call (or eval) raises.
init_gender_raises(t) ==
    /\ pc[t] \in {"gender_extractor", "gender_model"}
    /\ MayFail /\ Fault
    /\ Failed("gender")
    /\ gender_ok' = gender_after_failure.ok
    /\ gender_extractor' = gender_after_failure.extractor
    /\ gender_model' = gender_after_failure.model
    /\ state_lock' = release_state_lock(t)
    /\ Goto(t, after_gender(t, FALSE))
    /\ loc' = Acquired(t)
    /\ UNCHANGED <<flags, analyze_lock, whisper_model, diarize_pipeline, emotion_ok,
                   emotion_clf, handler, last, requests>>

\* Line 202: the emotion classifier is loaded.
emotion_loaded == emotion_ok /\ emotion_clf # 0

\* Line 206: the same check under the lock.
emotion_loaded_locked == emotion_ok /\ emotion_clf # 0

\* One speaker profile, and the locals once the profile of the speaker at
\* the head of todo is stored (lines 416-424 and 439-446).
Profile(gender, age, emotion) ==
    [gender |-> gender[1], gender_confidence |-> gender[2],
     age_group |-> age[1], pitch_median_hz |-> age[2],
     emotion |-> emotion[1], emotion_confidence |-> emotion[2]]

DefaultProfile ==
    Profile(<<"unknown", "null">>, <<"unknown", "null">>, <<"neutral", "null">>)

\* Mutant: "speakers = {spk: ...}" for "speakers[spk] = ...".
store_profile_replacing(l, profile) ==
    [l EXCEPT !.speakers = (Head(l.todo) :> profile),
              !.todo = Tail(l.todo),
              !.y_spk = NoBuffer,
              !.gender = <<"unknown", "null">>,
              !.age = <<"unknown", "null">>]

store_profile(l, profile) ==
    [l EXCEPT !.speakers = (Head(l.todo) :> profile) @@ l.speakers,
              !.todo = Tail(l.todo),
              !.y_spk = NoBuffer,
              !.gender = <<"unknown", "null">>,
              !.age = <<"unknown", "null">>]

\* predict_emotion returned emotion to analyze, which stores the profile.
emotion_result(l, emotion) == store_profile(l, Profile(l.gender, l.age, emotion))

\* The caller of init_emotion_model_if_needed goes on; predict_emotion
\* returns ("neutral", None) when the classifier is not available.
after_emotion(t, ok, l) ==
    /\ Goto(t, IF handler[t] = "ready" THEN "ready_return"
               ELSE IF ok THEN "emotion_infer" ELSE "spk_next")
    /\ loc' = [loc EXCEPT ![t] =
                  IF handler[t] = "analyze" /\ ~ok
                  THEN emotion_result([l EXCEPT !.first = FALSE], <<"neutral", "null">>)
                  ELSE [l EXCEPT !.first = FALSE]]

\* Mutant: lines 198-200 dropped, the flag is not looked at.
emotion_disabled_ignored == FALSE

\* Line 198: the emotion classifier is switched off.
emotion_disabled == ~ENABLE_EMOTION

\* init_emotion_model_if_needed, lines 198-203, before the lock.
init_emotion_check(t) ==
    /\ pc[t] = "emotion_check"
    /\ IF emotion_disabled
       THEN /\ emotion_ok' = FALSE
            /\ after_emotion(t, FALSE, loc[t])
       ELSE /\ IF emotion_loaded
               THEN after_emotion(t, TRUE, loc[t])
               ELSE Goto(t, "emotion_lock") /\ loc' = FirstTime(t, "emotion")
            /\ UNCHANGED emotion_ok
    /\ UNCHANGED <<flags, state_lock, analyze_lock, whisper_model, diarize_pipeline,
                   gender_ok, gender_extractor, gender_model, emotion_clf, handler,
                   last, counts, requests, faults>>

\* Lines 205-208.
init_emotion_lock(t) ==
    /\ pc[t] = "emotion_lock"
    /\ state_lock = 0
    /\ IF emotion_loaded_locked
       THEN /\ after_emotion(t, TRUE, loc[t])
            /\ UNCHANGED <<state_lock, counts>>
       ELSE /\ state_lock' = t
            /\ Construct(t, "emotion")
            /\ Goto(t, "emotion_ctor")
    /\ UNCHANGED <<flags, analyze_lock, handles, handler, last, requests, faults>>

\* Lines 209-214: EncoderClassifier.from_hparams returns.
init_emotion_built(t) ==
    /\ pc[t] = "emotion_ctor"
    /\ emotion_clf' = ctor_calls["emotion"]
    /\ emotion_ok' = TRUE
    /\ state_lock' = release_state_lock(t)
    /\ after_emotion(t, TRUE, loc[t])
    /\ UNCHANGED <<flags, analyze_lock, whisper_model, diarize_pipeline, gender_ok,
                   gender_extractor, gender_model, handler, last, counts,
                   requests, faults>>

\* Lines 215-218: EncoderClassifier.from_hparams raises.
init_emotion_raises(t) ==
    /\ pc[t] = "emotion_ctor"
    /\ MayFail /\ Fault
    /\ emotion_ok' = FALSE
    /\ emotion_clf' = 0
    /\ state_lock' = release_state_lock(t)
    /\ Failed("emotion")
    /\ after_emotion(t, FALSE, loc[t])
    /\ UNCHANGED <<flags, analyze_lock, whisper_model, diarize_pipeline, gender_ok,
                   gender_extractor, gender_model, handler, last, requests>>

(***************************************************************************)
(* The classifiers' outputs.                                               *)
(***************************************************************************)
\* What the gender model yields: <<id2label[best].lower(), best>>.
GenderModelOutputs == { <<"female", 0>> }

\* Lines 237-248 of predict_gender.
gender_label(label, best) ==
    IF label \in {"female", "f", "woman"} THEN "female"
    ELSE IF label \in {"male", "m", "man"} THEN "male"
    ELSE IF best = 0 THEN "female"
    ELSE IF best = 1 THEN "male"
    ELSE "unknown"

\* What classify_file yields: <<text_lab[0].lower(), out_prob has a max>>.
EmotionModelOutputs == { <<"hap", TRUE>> }

\* Lines 263-273 of predict_emotion.
emotion_label(lab) ==
    CASE lab = "neu" -> "neutral"
      [] lab = "hap" -> "happy"
      [] lab = "sad" -> "sad"
      [] lab = "ang" -> "angry"
      [] lab = "fea" -> "fear"
      [] lab = "exc" -> "excited"
      [] lab = "fru" -> "frustration"
      [] lab = "sur" -> "surprise"
      [] OTHER -> lab

\* What librosa.pyin yields for a speaker: <<number of voiced frames,
\* median f0 in Hz>>.
PitchStats == { <<40, 200>> }

\* Lines 122-128: what pyin and the median yield for the buffer y.
pyin(y) == IF y.f0v = <<>> THEN PitchStats ELSE {y.f0v}

\* Mutant: ">" for ">=" and "<" for "<=", a boundary falls into the lower
\* bucket.
estimate_age_group_from_pitch_boundary_low(voiced, med) ==
    IF voiced < 20 THEN <<"unknown", "null">>
    ELSE IF med > 250 THEN <<"child", med>>
    ELSE IF 180 < med /\ med <= 250 THEN <<"young_adult", med>>
    ELSE IF 120 < med /\ med <= 180 THEN <<"adult", med>>
    ELSE <<"senior", med>>

\* estimate_age_group_from_pitch; an exception gives ("unknown", None) as
\* fewer than 20 voiced frames do.
estimate_age_group_from_pitch(voiced, med) ==
    IF voiced < 20 THEN <<"unknown", "null">>
    ELSE IF med >= 250 THEN <<"child", med>>
    ELSE IF 180 <= med /\ med < 250 THEN <<"young_adult", med>>
    ELSE IF 120 <= med /\ med < 180 THEN <<"adult", med>>
    ELSE <<"senior", med>>

(***************************************************************************)
(* analyze, inside the gate.                                               *)
(***************************************************************************)
\* Lines 333-337: transcribe returns the segments.
analyze_transcribe(t) ==
    /\ pc[t] = "transcribe"
    /\ \E segs \in Transcripts :
          loc' = [Touch(t) EXCEPT ![t].segments = segs]
    /\ Goto(t, IF ENABLE_DIARIZATION THEN "diar_check" ELSE "align")
    /\ UNCHANGED <<flags, state_lock, analyze_lock, handles, handler, last,
                   counts, requests, faults>>

\* Mutant: the exception of transcribe is swallowed and the request goes on
\* without segments.
analyze_transcribe_raises_goes_on(t) ==
    /\ pc[t] = "transcribe"
    /\ MayFail /\ Fault
    /\ loc' = Touch(t)
    /\ Goto(t, IF ENABLE_DIARIZATION THEN "diar_check" ELSE "align")
    /\ UNCHANGED <<flags, state_lock, analyze_lock, handles, handler, last,
                   counts, requests>>

\* transcribe (or the iteration over its segments) raises.
analyze_transcribe_raises(t) ==
    /\ pc[t] = "transcribe"
    /\ MayFail /\ Fault
    /\ RaiseInCall(t, "transcribe")
    /\ UNCHANGED <<flags, state_lock, handles, counts, requests>>

\* Lines 343-344: the pipeline returns the rows.
analyze_diarize(t) ==
    /\ pc[t] = "diarize"
    /\ \E rows \in DiarOutputs :
          loc' = [Touch(t) EXCEPT ![t].diar_rows = rows]
    /\ Goto(t, "align")
    /\ UNCHANGED <<flags, state_lock, analyze_lock, handles, handler, last,
                   counts, requests, faults>>

\* The pipeline raises.
analyze_diarize_raises(t) ==
    /\ pc[t] = "diarize"
    /\ MayFail /\ Fault
    /\ RaiseInCall(t, "diarize")
    /\ UNCHANGED <<flags, state_lock, handles, counts, requests>>

\* Lines 351-411 and 447-455: speakers are assigned to the segments; with
\* rows the audio is loaded and the rows grouped by speaker, without rows
\* the one profile of SPEAKER_0 is made.
analyze_assign(t) ==
    /\ pc[t] = "align"
    /\ LET l    == loc[t]
           rows == l.diar_rows
           fin  == assign_speakers(l.segments, rows)
       IN  IF Len(rows) > 0
           THEN /\ loc' = [loc EXCEPT ![t].final_segments = fin,
                                      ![t].todo = speaker_order(rows, <<>>)]
                /\ Goto(t, "spk_next")
           ELSE /\ loc' = [loc EXCEPT ![t].final_segments = fin,
                                      ![t].speakers = "SPEAKER_0" :> DefaultProfile]
                /\ Goto(t, "respond")
    /\ UNCHANGED <<flags, state_lock, analyze_lock, handles, handler, last,
                   counts, requests, faults>>

\* Line 403: load_audio_mono_16k raises.
analyze_load_audio_raises(t) ==
    /\ pc[t] = "align"
    /\ Len(loc[t].diar_rows) > 0
    /\ MayFail /\ Fault
    /\ Raise(t, "load_audio_mono_16k")
    /\ UNCHANGED <<flags, state_lock, handles, counts, requests>>

\* Mutant: lines 415-424 dropped, a speaker without enough audio is
\* classified like any other.
analyze_speaker_classifies_all(t) ==
    /\ pc[t] = "spk_next"
    /\ IF Len(loc[t].todo) = 0
       THEN Goto(t, "respond")
       ELSE Goto(t, IF ENABLE_GENDER THEN "gender_check" ELSE "age_emotion")
    /\ UNCHANGED <<flags, state_lock, analyze_lock, handles, handler, loc, last,
                   counts, requests, faults>>

\* Lines 413-426: the next speaker of by_spk; too little audio gives the
\* default profile, otherwise classification starts with the gender.
analyze_speaker(t) ==
    /\ pc[t] = "spk_next"
    /\ LET l == loc[t]
       IN  IF Len(l.todo) = 0
           THEN Goto(t, "respond") /\ UNCHANGED loc
           ELSE LET y_spk == concat_speaker_audio(AUDIO_SAMPLES, SAMPLES_PER_TICK,
                                 rows_of(l.diar_rows, Head(l.todo)),
                                 MIN_TOTAL_TICKS, MAX_TOTAL_TICKS)
                IN  IF y_spk.none
                    THEN /\ loc' = [loc EXCEPT ![t] = store_profile(l, DefaultProfile)]
                         /\ UNCHANGED pc
                    ELSE /\ Goto(t, IF ENABLE_GENDER THEN "gender_check"
                                    ELSE "age_emotion")
                         /\ loc' = [loc EXCEPT ![t].y_spk = y_spk]
    /\ UNCHANGED <<flags, state_lock, analyze_lock, handles, handler, last,
                   counts, requests, faults>>

\* predict_gender, lines 226-248: the model answers.
predict_gender_infer(t) ==
    /\ pc[t] = "gender_infer"
    /\ \E out \in GenderModelOutputs :
          loc' = [Touch(t) EXCEPT ![t].gender = <<gender_label(out[1], out[2]), "conf">>]
    /\ Goto(t, "age_emotion")
    /\ UNCHANGED <<flags, state_lock, analyze_lock, handles, handler, last,
                   counts, requests, faults>>

\* Lines 249-250: anything in the try block raises.
predict_gender_raises(t) ==
    /\ pc[t] = "gender_infer"
    /\ MayFail /\ Fault
    /\ loc' = [Touch(t) EXCEPT ![t].gender = <<"unknown", "null">>]
    /\ Goto(t, "age_emotion")
    /\ UNCHANGED <<flags, state_lock, analyze_lock, handles, handler, last,
                   counts, requests>>

\* Lines 427-433: the age group is estimated; with ENABLE_EMOTION the
\* speaker's audio is written to the temporary file for predict_emotion,
\* without it the profile is stored with the neutral emotion.
analyze_age_group(t) ==
    /\ pc[t] = "age_emotion"
    /\ \E stats \in pyin(loc[t].y_spk) :
          LET l == [loc[t] EXCEPT !.age = estimate_age_group_from_pitch(stats[1], stats[2])]
          IN  IF ENABLE_EMOTION
              THEN /\ loc' = [loc EXCEPT ![t] = l]
                   /\ Goto(t, "emotion_check")
              ELSE /\ loc' = [loc EXCEPT ![t] = emotion_result(l, <<"neutral", "null">>)]
                   /\ Goto(t, "spk_next")
    /\ UNCHANGED <<flags, state_lock, analyze_lock, handles, handler, last,
                   counts, requests, faults>>

\* Line 432: sf.write raises, outside every try block but the handler's.
analyze_write_raises(t) ==
    /\ pc[t] = "age_emotion"
    /\ ENABLE_EMOTION
    /\ MayFail /\ Fault
    /\ Raise(t, "sf.write")
    /\ UNCHANGED <<flags, state_lock, handles, counts, requests>>

\* predict_emotion, lines 258-282: the classifier answers; the temporary
\* file is removed and the profile stored.
predict_emotion_infer(t) ==
    /\ pc[t] = "emotion_infer"
    /\ \E out \in EmotionModelOutputs :
          loc' = [Touch(t) EXCEPT ![t] =
                    emotion_result(@, <<emotion_label(out[1]),
                                        IF out[2] THEN "conf" ELSE "null">>)]
    /\ Goto(t, "spk_next")
    /\ UNCHANGED <<flags, state_lock, analyze_lock, handles, handler, last,
                   counts, requests, faults>>

\* Lines 283-284: anything in the try block raises.
predict_emotion_raises(t) ==
    /\ pc[t] = "emotion_infer"
    /\ MayFail /\ Fault
    /\ loc' = [Touch(t) EXCEPT ![t] = emotion_result(@, <<"neutral", "null">>)]
    /\ Goto(t, "spk_next")
    /\ UNCHANGED <<flags, state_lock, analyze_lock, handles, handler, last,
                   counts, requests>>

\* Lines 457-461: the response is returned and the gate left.
analyze_respond(t) ==
    /\ pc[t] = "respond"
    /\ Return(t, [kind |-> "success", language |-> "en",
                  segments |-> loc[t].final_segments,
                  speakers |-> loc[t].speakers])
    /\ UNCHANGED <<flags, state_lock, handles, counts, requests, faults>>

\* ready, line 319.
ready_return(t) ==
    /\ pc[t] = "ready_return"
    /\ Return(t, [kind |-> "ready", ok |-> TRUE])
    /\ UNCHANGED <<flags, state_lock, handles, counts, requests, faults>>

(***************************************************************************)
(* health.  The dict of lines 294-304 is built value by value, and other   *)
(* threads run between two of its reads.                                   *)
(***************************************************************************)
\* The kinds in the order in which health reads them (lines 300-303).
HealthKinds == <<"whisper", "diarize", "gender", "emotion">>

\* Mutant: health reports every resource as not loaded.
health_value_never_loaded(k) == FALSE

\* The value health reports for kind k.
health_value(k) ==
    CASE k = "whisper" -> whisper_model # 0
      [] k = "diarize" -> diarize_pipeline # 0
      [] k = "gender"  -> gender_ok
      [] k = "emotion" -> emotion_ok

\* GET /health is handed to the idle worker t.
health_start(t) ==
    /\ pc[t] = "idle"
    /\ requests < MaxRequests
    /\ requests' = requests + 1
    /\ pc' = [pc EXCEPT ![t] = "health"]
    /\ handler' = [handler EXCEPT ![t] = "health"]
    /\ loc' = [loc EXCEPT ![t] = NoLocals]
    /\ UNCHANGED <<flags, state_lock, analyze_lock, handles, last, counts, faults>>

\* Lines 300-303: the next of the four values is read.
health_read(t) ==
    /\ pc[t] = "health"
    /\ LET n == Len(loc[t].report) + 1
       IN  /\ loc' = [loc EXCEPT ![t].report = Append(@, health_value(HealthKinds[n]))]
           /\ Goto(t, IF n = Len(HealthKinds) THEN "health_return" ELSE "health")
    /\ UNCHANGED <<flags, state_lock, analyze_lock, handles, handler, last,
                   counts, requests, faults>>

\* Line 294: the dict is returned.
health_return(t) ==
    /\ pc[t] = "health_return"
    /\ Return(t, [kind |-> "health", ok |-> TRUE,
                  enable_diarization |-> ENABLE_DIARIZATION,
                  enable_gender |-> ENABLE_GENDER,
                  enable_emotion |-> ENABLE_EMOTION,
                  whisper_loaded |-> loc[t].report[1],
                  diarize_loaded |-> loc[t].report[2],
                  gender_loaded |-> loc[t].report[3],
                  emotion_loaded |-> loc[t].report[4]])
    /\ UNCHANGED <<flags, state_lock, handles, counts, requests, faults>>

Next ==
    \E t \in Threads :
        \/ \E p \in RequestPaths : analyze_start(t, p)
        \/ ready_start(t)
        \/ analyze_enter(t)
        \/ analyze_resolve(t)
        \/ get_whisper_model_check(t)
        \/ get_whisper_model_lock(t)
        \/ get_whisper_model_built(t)
        \/ get_whisper_model_raises(t)
        \/ get_diarize_pipeline_check(t)
        \/ get_diarize_pipeline_lock(t)
        \/ get_diarize_pipeline_built(t)
        \/ get_diarize_pipeline_raises(t)
        \/ init_gender_check(t)
        \/ init_gender_lock(t)
        \/ init_gender_extractor(t)
        \/ init_gender_model(t)
        \/ init_gender_raises(t)
        \/ init_emotion_check(t)
        \/ init_emotion_lock(t)
        \/ init_emotion_built(t)
        \/ init_emotion_raises(t)
        \/ analyze_transcribe(t)
        \/ analyze_transcribe_raises(t)
        \/ analyze_diarize(t)
        \/ analyze_diarize_raises(t)
        \/ analyze_assign(t)
        \/ analyze_load_audio_raises(t)
        \/ analyze_speaker(t)
        \/ predict_gender_infer(t)
        \/ predict_gender_raises(t)
        \/ analyze_age_group(t)
        \/ analyze_write_raises(t)
        \/ predict_emotion_infer(t)
        \/ predict_emotion_raises(t)
        \/ analyze_respond(t)
        \/ ready_return(t)

Spec == Init /\ [][Next]_vars

(***************************************************************************)
(* The same service with the first request already handed to worker 1: an  *)
(* analyze request whose audio_path is any string of at most MaxPathLen    *)
(* characters.                                                             *)
(***************************************************************************)
MaxPathLen == 5

AllPaths == UNION { [1..n -> PathChars] : n \in 0..MaxPathLen }

InitPath ==
    /\ ENABLE_DIARIZATION = TRUE
    /\ ENABLE_GENDER = TRUE
    /\ ENABLE_EMOTION = TRUE
    /\ state_lock = 0
    /\ analyze_lock = 0
    /\ whisper_model = 0
    /\ diarize_pipeline = 0
    /\ gender_ok = FALSE
    /\ gender_extractor = 0
    /\ gender_model = 0
    /\ emotion_ok = FALSE
    /\ emotion_clf = 0
    /\ \E p \in AllPaths :
          /\ pc = [t \in Threads |-> IF t = 1 THEN "gate" ELSE "idle"]
          /\ handler = [t \in Threads |-> IF t = 1 THEN "analyze" ELSE "none"]
          /\ loc = [t \in Threads |->
                      IF t = 1 THEN [NoLocals EXCEPT !.path = p] ELSE NoLocals]
    /\ last = NoResponse
    /\ ctor_calls = [k \in Kinds |-> 0]
    /\ ctor_failed = [k \in Kinds |-> 0]
    /\ requests = 1
    /\ faults = 0

SpecPath == InitPath /\ [][Next]_vars

(***************************************************************************)
(* The acquire functions called on their own, under every setting of the   *)
(* flags: worker 1 is inside analyze and about to call                     *)
(* get_diarize_pipeline, predict_gender or predict_emotion for speaker A,  *)
(* worker 2 is inside ready and about to call one of the three acquires    *)
(* (or is idle); nothing but whisper has been constructed.                 *)
(***************************************************************************)
AcquireEntries == {"diar_check", "gender_check", "emotion_check"}

AcquireLocals(entry) ==
    LET segs == CHOOSE x \in Transcripts : TRUE
        rows == CHOOSE x \in DiarOutputs : Len(x) > 0
        stat == CHOOSE x \in PitchStats : TRUE
        l0   == [NoLocals EXCEPT !.path = <<"f">>,
                                 !.audio_path = audio_path_of(<<"f">>),
                                 !.segments = segs,
                                 !.touched = TRUE]
        spks == speaker_order(rows, <<>>)
        l1   == [l0 EXCEPT !.diar_rows = rows,
                           !.final_segments = assign_speakers(segs, rows),
                           !.todo = spks,
                           !.y_spk = concat_speaker_audio(
                                         AUDIO_SAMPLES, SAMPLES_PER_TICK,
                                         rows_of(rows, Head(spks)),
                                         MIN_TOTAL_TICKS, MAX_TOTAL_TICKS)]
    IN  CASE entry = "diar_check"    -> l0
          [] entry = "gender_check"  -> l1
          [] entry = "emotion_check" ->
                 [l1 EXCEPT !.age = estimate_age_group_from_pitch(stat[1], stat[2])]

InitAcquire ==
    /\ ENABLE_DIARIZATION \in BOOLEAN
    /\ ENABLE_GENDER \in BOOLEAN
    /\ ENABLE_EMOTION \in BOOLEAN
    /\ state_lock = 0
    /\ analyze_lock = 1
    /\ whisper_model = 1
    /\ diarize_pipeline = 0
    /\ gender_ok = FALSE
    /\ gender_extractor = 0
    /\ gender_model = 0
    /\ emotion_ok = FALSE
    /\ emotion_clf = 0
    /\ \E e1 \in AcquireEntries : \E e2 \in AcquireEntries \cup {"idle"} :
          /\ pc = [t \in Threads |->
                      IF t = 1 THEN e1 ELSE IF t = 2 THEN e2 ELSE "idle"]
          /\ handler = [t \in Threads |->
                           IF t = 1 THEN "analyze"
                           ELSE IF t = 2 /\ e2 # "idle" THEN "ready" ELSE "none"]
          /\ loc = [t \in Threads |->
                       IF t = 1 THEN AcquireLocals(e1) ELSE NoLocals]
          /\ requests = IF e2 = "idle" THEN 1 ELSE 2
    /\ last = NoResponse
    /\ ctor_calls = [k \in Kinds |-> IF k = "whisper" THEN 1 ELSE 0]
    /\ ctor_failed = [k \in Kinds |-> 0]
    /\ faults = 0

NextAcquire ==
    \E t \in Threads :
        \/ get_diarize_pipeline_check(t)
        \/ get_diarize_pipeline_lock(t)
        \/ get_diarize_pipeline_built(t)
        \/ get_diarize_pipeline_raises(t)
        \/ init_gender_check(t)
        \/ init_gender_lock(t)
        \/ init_gender_extractor(t)
        \/ init_gender_model(t)
        \/ init_gender_raises(t)
        \/ init_emotion_check(t)
        \/ init_emotion_lock(t)
        \/ init_emotion_built(t)
        \/ init_emotion_raises(t)

SpecAcquire == InitAcquire /\ [][NextAcquire]_vars

\* The same acquires with GET /health requests served by the workers that
\* are idle meanwhile.
NextHealth ==
    \/ NextAcquire
    \/ \E t \in Threads :
           \/ health_start(t)
           \/ health_read(t)
           \/ health_return(t)

SpecHealth == InitAcquire /\ [][NextHealth]_vars

(***************************************************************************)
(* The whole service with its three endpoints: /analyze, /ready and        *)
(* /health requests in every interleaving.                                 *)
(***************************************************************************)
NextAll ==
    \/ Next
    \/ \E t \in Threads :
           \/ health_start(t)
           \/ health_read(t)
           \/ health_return(t)

SpecAll == Init /\ [][NextAll]_vars

(***************************************************************************)
(* The alignment step on its own: worker 1 is inside analyze with the      *)
(* transcript and the diarization rows in hand, about to assign the        *)
(* speakers.  The transcript is one segment with any start and end up to   *)
(* AlignMaxTime (also end < start), the rows are any list of at most       *)
(* AlignMaxRows intervals over the same times with speakers A and B; the   *)
(* example of the zero-overlap fallback, segment [10.0, 10.5] with rows    *)
(* (0, 5, A), (20, 25, B), is added.                                       *)
(***************************************************************************)
AlignMaxTime == 3
AlignMaxRows == 2

AlignTimes == 0..AlignMaxTime

AlignSegments ==
    { <<[start |-> a, end |-> b]>> : a \in AlignTimes, b \in AlignTimes }

AlignRow ==
    { r \in [start : AlignTimes, end : AlignTimes, speaker : {"A", "B"}] :
          r.start <= r.end }

RECURSIVE RowLists(_)
RowLists(n) ==
    IF n = 0 THEN { <<>> }
    ELSE LET shorter == RowLists(n - 1)
         IN  shorter \cup { Append(rows, r) : rows \in shorter, r \in AlignRow }

FallbackExample ==
    [segments |-> <<[start |-> 100, end |-> 105]>>,
     diar_rows |-> <<[start |-> 0, end |-> 50, speaker |-> "A"],
                     [start |-> 200, end |-> 250, speaker |-> "B"]>>]

AlignInputs ==
    [segments : AlignSegments, diar_rows : RowLists(AlignMaxRows)]
        \cup {FallbackExample}

InitAlign ==
    /\ ENABLE_DIARIZATION = TRUE
    /\ ENABLE_GENDER = FALSE
    /\ ENABLE_EMOTION = FALSE
    /\ state_lock = 0
    /\ analyze_lock = 1
    /\ whisper_model = 1
    /\ diarize_pipeline = 1
    /\ gender_ok = FALSE
    /\ gender_extractor = 0
    /\ gender_model = 0
    /\ emotion_ok = FALSE
    /\ emotion_clf = 0
    /\ pc = [t \in Threads |-> IF t = 1 THEN "align" ELSE "idle"]
    /\ handler = [t \in Threads |-> IF t = 1 THEN "analyze" ELSE "none"]
    /\ \E input \in AlignInputs :
          loc = [t \in Threads |->
                    IF t = 1
                    THEN [NoLocals EXCEPT !.path = <<"f">>,
                                          !.audio_path = audio_path_of(<<"f">>),
                                          !.segments = input.segments,
                                          !.diar_rows = input.diar_rows,
                                          !.touched = TRUE]
                    ELSE NoLocals]
    /\ last = NoResponse
    /\ ctor_calls = [k \in Kinds |-> IF k \in {"whisper", "diarize"} THEN 1 ELSE 0]
    /\ ctor_failed = [k \in Kinds |-> 0]
    /\ requests = 1
    /\ faults = 0

NextAlign == \E t \in Threads : analyze_assign(t)

SpecAlign == InitAlign /\ [][NextAlign]_vars

(***************************************************************************)
(* The aggregator on its own: worker 1 is inside analyze with the segments *)
(* labelled and the audio loaded, about to aggregate the audio of the one  *)
(* speaker A, whose rows are any list of 1 to ConcatMaxRows rows with      *)
(* start and end among ConcatTimes (ticks; also end <= start, a time       *)
(* before the start of the audio and times past its 300 ticks).            *)
(***************************************************************************)
ConcatMaxRows == 2

ConcatTimes == {-5, 0, 6, 12, 150, 290, 310}

ConcatRow == [start : ConcatTimes, end : ConcatTimes, speaker : {"A"}]

RECURSIVE ConcatRowLists(_)
ConcatRowLists(n) ==
    IF n = 1 THEN { <<r>> : r \in ConcatRow }
    ELSE LET shorter == ConcatRowLists(n - 1)
         IN  shorter \cup { Append(rows, r) : rows \in shorter, r \in ConcatRow }

InitConcat ==
    /\ ENABLE_DIARIZATION = TRUE
    /\ ENABLE_GENDER = FALSE
    /\ ENABLE_EMOTION = FALSE
    /\ state_lock = 0
    /\ analyze_lock = 1
    /\ whisper_model = 1
    /\ diarize_pipeline = 1
    /\ gender_ok = FALSE
    /\ gender_extractor = 0
    /\ gender_model = 0
    /\ emotion_ok = FALSE
    /\ emotion_clf = 0
    /\ pc = [t \in Threads |-> IF t = 1 THEN "spk_next" ELSE "idle"]
    /\ handler = [t \in Threads |-> IF t = 1 THEN "analyze" ELSE "none"]
    /\ \E rows \in ConcatRowLists(ConcatMaxRows) :
          LET segs == CHOOSE x \in Transcripts : TRUE
          IN  loc = [t \in Threads |->
                        IF t = 1
                        THEN [NoLocals EXCEPT
                                 !.path = <<"f">>,
                                 !.audio_path = audio_path_of(<<"f">>),
                                 !.segments = segs,
                                 !.diar_rows = rows,
                                 !.final_segments = assign_speakers(segs, rows),
                                 !.todo = speaker_order(rows, <<>>),
                                 !.touched = TRUE]
                        ELSE NoLocals]
    /\ last = NoResponse
    /\ ctor_calls = [k \in Kinds |-> IF k \in {"whisper", "diarize"} THEN 1 ELSE 0]
    /\ ctor_failed = [k \in Kinds |-> 0]
    /\ requests = 1
    /\ faults = 0

NextConcat == \E t \in Threads : analyze_speaker(t)

SpecConcat == InitConcat /\ [][NextConcat]_vars

(***************************************************************************)
(* The age estimate on its own: worker 1 is inside analyze with the audio  *)
(* of the one speaker A aggregated, about to estimate the age group; the   *)
(* audio is a synthetic voiced-pitch array with 0 to MaxVoiced voiced      *)
(* frames and a median between pyin's fmin and fmax.                       *)
(***************************************************************************)
MaxVoiced == 21

\* fmin and fmax of line 123.
PITCH_FMIN == 50
PITCH_FMAX == 500

SyntheticArrays ==
    { [none |-> FALSE, clips |-> << <<0, 50 * SAMPLES_PER_TICK>> >>,
       samples |-> 50 * SAMPLES_PER_TICK, total |-> 50 * SAMPLES_PER_TICK,
       f0v |-> <<voiced, med>>] :
          voiced \in 0..MaxVoiced, med \in PITCH_FMIN..PITCH_FMAX }

InitAge ==
    /\ ENABLE_DIARIZATION = TRUE
    /\ ENABLE_GENDER = FALSE
    /\ ENABLE_EMOTION \in BOOLEAN
    /\ state_lock = 0
    /\ analyze_lock = 1
    /\ whisper_model = 1
    /\ diarize_pipeline = 1
    /\ gender_ok = FALSE
    /\ gender_extractor = 0
    /\ gender_model = 0
    /\ emotion_ok = FALSE
    /\ emotion_clf = 0
    /\ pc = [t \in Threads |-> IF t = 1 THEN "age_emotion" ELSE "idle"]
    /\ handler = [t \in Threads |-> IF t = 1 THEN "analyze" ELSE "none"]
    /\ \E y \in SyntheticArrays :
          LET segs == CHOOSE x \in Transcripts : TRUE
              rows == <<[start |-> 0, end |-> 50, speaker |-> "A"]>>
          IN  loc = [t \in Threads |->
                        IF t = 1
                        THEN [NoLocals EXCEPT
                                 !.path = <<"f">>,
                                 !.audio_path = audio_path_of(<<"f">>),
                                 !.segments = segs,
                                 !.diar_rows = rows,
                                 !.final_segments = assign_speakers(segs, rows),
                                 !.todo = speaker_order(rows, <<>>),
                                 !.y_spk = y,
                                 !.touched = TRUE]
                        ELSE NoLocals]
    /\ last = NoResponse
    /\ ctor_calls = [k \in Kinds |-> IF k \in {"whisper", "diarize"} THEN 1 ELSE 0]
    /\ ctor_failed = [k \in Kinds |-> 0]
    /\ requests = 1
    /\ faults = 0

NextAge == \E t \in Threads : analyze_age_group(t)

SpecAge == InitAge /\ [][NextAge]_vars

(***************************************************************************)
(* The gate on its own: worker 1 has entered "with _analyze_lock" and is   *)
(* about to resolve its path, worker 2 has reached "with _analyze_lock"    *)
(* after it and is blocked in the acquire of the lock worker 1 holds.  The *)
(* flags are off and the transcription model is built, so that a request   *)
(* is the gate, the path, the transcription and the response.  requests is *)
(* set so that exactly one more request arrives in the run.                *)
(***************************************************************************)
InitGate ==
    /\ ENABLE_DIARIZATION = FALSE
    /\ ENABLE_GENDER = FALSE
    /\ ENABLE_EMOTION = FALSE
    /\ state_lock = 0
    /\ analyze_lock = 1
    /\ whisper_model = 1
    /\ diarize_pipeline = 0
    /\ gender_ok = FALSE
    /\ gender_extractor = 0
    /\ gender_model = 0
    /\ emotion_ok = FALSE
    /\ emotion_clf = 0
    /\ pc = [t \in Threads |->
                IF t = 1 THEN "resolve" ELSE IF t = 2 THEN "gate" ELSE "idle"]
    /\ handler = [t \in Threads |-> IF t \in {1, 2} THEN "analyze" ELSE "none"]
    /\ \E p1 \in RequestPaths : \E p2 \in RequestPaths :
          loc = [t \in Threads |->
                    IF t = 1 THEN [NoLocals EXCEPT !.path = p1]
                    ELSE IF t = 2 THEN [NoLocals EXCEPT !.path = p2]
                    ELSE NoLocals]
    /\ last = NoResponse
    /\ ctor_calls = [k \in Kinds |-> IF k = "whisper" THEN 1 ELSE 0]
    /\ ctor_failed = [k \in Kinds |-> 0]
    /\ requests = MaxRequests - 1
    /\ faults = 0

NextGate ==
    \E t \in Threads :
        \/ \E p \in RequestPaths : analyze_start(t, p)
        \/ analyze_enter(t)
        \/ analyze_resolve(t)
        \/ get_whisper_model_check(t)
        \/ analyze_transcribe(t)
        \/ analyze_transcribe_raises(t)
        \/ analyze_assign(t)
        \/ analyze_respond(t)

SpecGate == InitGate /\ [][NextGate]_vars

(***************************************************************************)
(* The service with its scheduling.  A thread that is not waiting for a    *)
(* lock takes its next step: the statement it is at, the constructor or    *)
(* the model it has called, terminates.  A thread waiting for a lock that  *)
(* is free again and again gets it: the locks are fair.  The arrival of a  *)
(* request is not forced.  Worker 1 has entered "with _analyze_lock" and   *)
(* resolved its path, worker 2 has reached "with _analyze_lock" after it;  *)
(* no model is built yet, and one more request, /analyze or /ready,        *)
(* arrives in the run.                                                     *)
(***************************************************************************)
\* The steps in which t acquires the gate or the registry lock.
Acquire(t) ==
    \/ analyze_enter(t)
    \/ get_whisper_model_lock(t)
    \/ get_diarize_pipeline_lock(t)
    \/ init_gender_lock(t)
    \/ init_emotion_lock(t)

\* The other steps of a request t is serving.
Proceed(t) ==
    \/ analyze_resolve(t)
    \/ get_whisper_model_check(t)
    \/ get_whisper_model_built(t)
    \/ get_whisper_model_raises(t)
    \/ get_diarize_pipeline_check(t)
    \/ get_diarize_pipeline_built(t)
    \/ get_diarize_pipeline_raises(t)
    \/ init_gender_check(t)
    \/ init_gender_extractor(t)
    \/ init_gender_model(t)
    \/ init_gender_raises(t)
    \/ init_emotion_check(t)
    \/ init_emotion_built(t)
    \/ init_emotion_raises(t)
    \/ analyze_transcribe(t)
    \/ analyze_transcribe_raises(t)
    \/ analyze_diarize(t)
    \/ analyze_diarize_raises(t)
    \/ analyze_assign(t)
    \/ analyze_load_audio_raises(t)
    \/ analyze_speaker(t)
    \/ predict_gender_infer(t)
    \/ predict_gender_raises(t)
    \/ analyze_age_group(t)
    \/ analyze_write_raises(t)
    \/ predict_emotion_infer(t)
    \/ predict_emotion_raises(t)
    \/ analyze_respond(t)
    \/ ready_return(t)

Fairness ==
    \A t \in Threads : WF_vars(Proceed(t)) /\ SF_vars(Acquire(t))

\* The requests that arrive behind worker 1 carry an empty audio_path and
\* are rejected once they are admitted.
FairPaths == { <<>> }

InitFair ==
    /\ ENABLE_DIARIZATION \in BOOLEAN
    /\ ENABLE_GENDER \in BOOLEAN
    /\ ENABLE_EMOTION \in BOOLEAN
    /\ state_lock = 0
    /\ analyze_lock = 1
    /\ whisper_model = 0
    /\ diarize_pipeline = 0
    /\ gender_ok = FALSE
    /\ gender_extractor = 0
    /\ gender_model = 0
    /\ emotion_ok = FALSE
    /\ emotion_clf = 0
    /\ pc = [t \in Threads |->
                IF t = 1 THEN "whisper_check"
                ELSE IF t = 2 THEN "gate" ELSE "idle"]
    /\ handler = [t \in Threads |-> IF t \in {1, 2} THEN "analyze" ELSE "none"]
    /\ \E p2 \in FairPaths :
          loc = [t \in Threads |->
                    IF t = 1
                    THEN [NoLocals EXCEPT
                            !.path = <<"f">>,
                            !.audio_path = resolve_audio_path(<<"f">>).path]
                    ELSE IF t = 2 THEN [NoLocals EXCEPT !.path = p2]
                    ELSE NoLocals]
    /\ last = NoResponse
    /\ ctor_calls = [k \in Kinds |-> 0]
    /\ ctor_failed = [k \in Kinds |-> 0]
    /\ requests = MaxRequests - 1
    /\ faults = 0

NextFair ==
    \E t \in Threads :
        \/ \E p \in FairPaths : analyze_start(t, p)
        \/ ready_start(t)
        \/ Acquire(t)
        \/ Proceed(t)

SpecFair == InitFair /\ [][NextFair]_vars /\ Fairness

(***************************************************************************)
(* Properties.                                                             *)
(***************************************************************************)
\* t is inside "with _analyze_lock".
InSpan(t) == handler[t] = "analyze" /\ pc[t] \notin {"idle", "gate"}

CtorPcs(k) ==
    CASE k = "whisper" -> {"whisper_ctor"}
      [] k = "diarize" -> {"diar_ctor"}
      [] k = "gender"  -> {"gender_extractor", "gender_model"}
      [] k = "emotion" -> {"emotion_ctor"}

\* The threads inside the constructor of kind k.
Constructing(k) == { t \in Threads : pc[t] \in CtorPcs(k) }

Ready(k) ==
    CASE k = "whisper" -> whisper_model # 0
      [] k = "diarize" -> diarize_pipeline # 0
      [] k = "gender"  -> gender_ok /\ gender_extractor # 0 /\ gender_model # 0
      [] k = "emotion" -> emotion_ok /\ emotion_clf # 0

Handle(k) ==
    CASE k = "whisper" -> <<whisper_model>>
      [] k = "diarize" -> <<diarize_pipeline>>
      [] k = "gender"  -> <<gender_ok, gender_extractor, gender_model>>
      [] k = "emotion" -> <<emotion_ok, emotion_clf>>

Unset(k) ==
    CASE k = "whisper" -> <<0>>
      [] k = "diarize" -> <<0>>
      [] k = "gender"  -> <<FALSE, 0, 0>>
      [] k = "emotion" -> <<FALSE, 0>>

\* The input is invalid: no path, a location outside the storage root, or
\* a file that does not exist.
InvalidInput(p) ==
    \/ p = <<>>
    \/ ~InsideRoot(audio_path_of(p))
    \/ ~exists(audio_path_of(p))

C2_NoDuplicateConstruction ==
    /\ [](\A k \in Kinds : Cardinality(Constructing(k)) <= 1)
    /\ [][\A k \in Kinds :
             Ready(k) => /\ ctor_calls'[k] = ctor_calls[k]
                         /\ Handle(k)' = Handle(k)]_vars

\* The gender classifier became ready while another thread, which had
\* found it not loaded, is about to repeat the check under the lock.
C2_Witness ==
    /\ Ready("gender")
    /\ \E t \in Threads : pc[t] = "gender_lock"

LockPc(k) ==
    CASE k = "whisper" -> "whisper_lock"
      [] k = "diarize" -> "diar_lock"
      [] k = "gender"  -> "gender_lock"
      [] k = "emotion" -> "emotion_lock"

C4_GateHeldThroughout ==
    /\ Cardinality({ t \in Threads : InSpan(t) }) <= 1
    /\ \A t \in Threads : InSpan(t) => analyze_lock = t

\* One request is classifying a speaker while another waits for the gate.
C4_Witness ==
    \E t1, t2 \in Threads : pc[t1] = "gender_infer" /\ pc[t2] = "gate"

\* C5: a request that has finished, however it finished, holds neither the
\* gate nor the registry lock, and the gate is only ever held by a request
\* that is still inside the span.
C5_GateReleasedOnEveryExit ==
    /\ \A t \in Threads :
          pc[t] = "idle" => analyze_lock # t /\ state_lock # t
    /\ analyze_lock # 0 => InSpan(analyze_lock)

\* A request was rejected with an HTTP error, and after it a request failed
\* with the internal error: both workers are idle and the gate is free.
C5_Witness ==
    /\ last.kind = "error"
    /\ last.prev = "http"
    /\ \A t \in Threads : pc[t] = "idle"
    /\ analyze_lock = 0

\* C6: an analyze request with invalid input neither holds the gate nor
\* waits for it while another request holds it.
C6_InvalidRejectedBeforeGate ==
    \A t \in Threads :
        handler[t] = "analyze" /\ InvalidInput(loc[t].path)
            => /\ analyze_lock # t
               /\ ~(pc[t] = "gate" /\ analyze_lock # 0)

\* C7: no step of an analyze request with invalid input calls a
\* constructor or a model or changes a resource handle.
C7_InvalidInputTouchesNothing ==
    [][\A t \in Threads :
          handler[t] = "analyze" /\ InvalidInput(loc[t].path) /\ pc'[t] # pc[t]
              => /\ UNCHANGED <<handles, counts>>
                 /\ handler'[t] = "analyze" => ~loc'[t].touched
                 /\ handler'[t] = "none" => ~last'.touched]_vars

\* C8: resolve_audio_path lets a request through only with a path whose
\* resolved location is the storage root or below it; a path resolving
\* outside the root is rejected with an HTTP error (status 400 in the
\* claim) and does not go on to transcription.
C8_OnlyPathsInsideRootAccepted ==
    [][\A t \in Threads :
          pc[t] = "resolve" /\ pc'[t] # pc[t]
              => /\ pc'[t] # "idle" => InsideRoot(loc'[t].audio_path)
                 /\ ~InsideRoot(audio_path_of(loc[t].path))
                        => /\ pc'[t] = "idle"
                           /\ last'.kind = "http"]_vars

\* C9: when the transcription or diarization engine fails to construct or
\* raises during inference, the analyze request returns the tagged error
\* response, leaves the gate free and the registry lock not held by it, and
\* leaves every resource handle as it was.
MandatoryPcs == {"whisper_ctor", "diar_ctor", "transcribe", "diarize"}

C9_MandatoryFailureIsTaggedError ==
    [][\A t \in Threads :
          /\ handler[t] = "analyze"
          /\ pc[t] \in MandatoryPcs
          /\ faults' = faults + 1
          /\ pc'[t] # pc[t]
          => /\ pc'[t] = "idle"
             /\ last'.thread = t
             /\ last'.kind = "error"
             /\ last'.error = "whisperx_internal_error"
             /\ analyze_lock' = 0
             /\ state_lock' # t
             /\ handles' = handles]_vars

\* An analyze request returned the internal error and the request served
\* after it succeeded.
C9_Witness ==
    /\ last.kind = "success"
    /\ last.prev = "error"

\* C10: a request inside a speaker's classification step (lines 426-446)
\* stays in the pipeline whatever fails there; a failure of the gender
\* step leaves gender ("unknown", None), a failure of the emotion step
\* stores the speaker's profile with emotion ("neutral", None) and the
\* gender already found.
GenderPcs ==
    {"gender_check", "gender_lock", "gender_extractor", "gender_model",
     "gender_infer"}
EmotionPcs ==
    {"age_emotion", "emotion_check", "emotion_lock", "emotion_ctor",
     "emotion_infer"}

C10_ClassifierFailureDegrades ==
    [][\A t \in Threads :
          /\ handler[t] = "analyze"
          /\ pc[t] \in GenderPcs \cup EmotionPcs
          /\ pc'[t] # pc[t]
          => /\ handler'[t] = "analyze"
             /\ faults' # faults /\ pc[t] \in GenderPcs
                    => loc'[t].gender = <<"unknown", "null">>
             /\ faults' # faults /\ pc[t] \in EmotionPcs
                    => LET spk == Head(loc[t].todo)
                           p   == loc'[t].speakers[spk]
                       IN  /\ p.emotion = "neutral"
                           /\ p.emotion_confidence = "null"
                           /\ p.gender = loc[t].gender[1]
                           /\ p.gender_confidence = loc[t].gender[2]]_vars

\* The profile of lines 416-423.
AllDefault(p) ==
    /\ p.gender = "unknown" /\ p.gender_confidence = "null"
    /\ p.age_group = "unknown" /\ p.pitch_median_hz = "null"
    /\ p.emotion = "neutral" /\ p.emotion_confidence = "null"

\* The aggregator returns none for speaker spk of the rows.
Insufficient(rows, spk) ==
    concat_speaker_audio(AUDIO_SAMPLES, SAMPLES_PER_TICK, rows_of(rows, spk),
                         MIN_TOTAL_TICKS, MAX_TOTAL_TICKS).none

\* C11: when the aggregator returns none for a speaker, the step that
\* handles the speaker stores the all-default profile for it, stays in the
\* pipeline, and acquires and constructs nothing; the profile stays the
\* default one up to the response, and the request that reaches its return
\* statement answers with success.
C11_InsufficientEvidenceGivesDefaultProfile ==
    /\ [](\A t \in Threads : \A spk \in DOMAIN loc[t].speakers :
             Insufficient(loc[t].diar_rows, spk)
                 => AllDefault(loc[t].speakers[spk]))
    /\ [][\A t \in Threads :
             /\ pc[t] = "spk_next"
             /\ Len(loc[t].todo) > 0
             /\ Insufficient(loc[t].diar_rows, Head(loc[t].todo))
             /\ <<pc[t], loc[t]>>' # <<pc[t], loc[t]>>
             => /\ pc'[t] = "spk_next"
                /\ handler'[t] = "analyze"
                /\ loc'[t].todo = Tail(loc[t].todo)
                /\ AllDefault(loc'[t].speakers[Head(loc[t].todo)])
                /\ UNCHANGED <<handles, counts, state_lock, last>>]_vars
    /\ [][\A t \in Threads :
             pc[t] = "respond" /\ pc'[t] # pc[t]
                 => /\ last'.kind = "success"
                    /\ last'.speakers = loc[t].speakers]_vars

\* A success response in which speaker B, with half a second of audio, has
\* the default profile while speaker A was classified.
C11_Witness ==
    /\ last.kind = "success"
    /\ DOMAIN last.speakers = {"A", "B"}
    /\ AllDefault(last.speakers["B"])
    /\ last.speakers["A"].age_group # "unknown"

\* The flag of a kind (whisper has none).
Enabled(k) ==
    CASE k = "whisper" -> TRUE
      [] k = "diarize" -> ENABLE_DIARIZATION
      [] k = "gender"  -> ENABLE_GENDER
      [] k = "emotion" -> ENABLE_EMOTION

\* C12: with the flag of a kind off, its constructor is never invoked and
\* no thread takes the registry lock for it; the acquire returns in its
\* first step with nothing built, and predict_gender then yields
\* ("unknown", None) and predict_emotion ("neutral", None), exactly as they
\* do when the construction fails.
C12_DisabledIsUnavailable ==
    /\ [](\A k \in Kinds : ~Enabled(k) =>
             /\ ctor_calls[k] = 0
             /\ ~Ready(k)
             /\ \A t \in Threads : pc[t] \notin {LockPc(k)} \cup CtorPcs(k))
    /\ [][\A t \in Threads : pc'[t] # pc[t] =>
             /\ pc[t] = "diar_check" /\ ~ENABLE_DIARIZATION
                    => /\ pc'[t] = after_diarize(t)
                       /\ UNCHANGED <<state_lock, counts, diarize_pipeline>>
             /\ pc[t] = "gender_check" /\ ~ENABLE_GENDER
                    => UNCHANGED <<state_lock, counts>>
             /\ pc[t] = "emotion_check" /\ ~ENABLE_EMOTION
                    => UNCHANGED <<state_lock, counts>>
             /\ /\ handler[t] = "analyze"
                /\ \/ pc[t] = "gender_check" /\ ~ENABLE_GENDER
                   \/ pc[t] \in CtorPcs("gender") /\ faults' # faults
                => /\ pc'[t] = "age_emotion"
                   /\ loc'[t].gender = <<"unknown", "null">>
             /\ /\ handler[t] = "analyze"
                /\ \/ pc[t] = "emotion_check" /\ ~ENABLE_EMOTION
                   \/ pc[t] \in CtorPcs("emotion") /\ faults' # faults
                => LET p == loc'[t].speakers[Head(loc[t].todo)]
                   IN  /\ pc'[t] = "spk_next"
                       /\ p.emotion = "neutral"
                       /\ p.emotion_confidence = "null"]_vars

\* predict_emotion was called with the emotion flag off and predict_gender
\* (by the other flag setting) is not involved: speaker A's profile is
\* stored with the neutral emotion and no emotion constructor was called.
C12_Witness ==
    /\ ~ENABLE_EMOTION
    /\ pc[1] = "spk_next"
    /\ "A" \in DOMAIN loc[1].speakers
    /\ loc[1].speakers["A"].emotion = "neutral"
    /\ ctor_calls["emotion"] = 0

\* The speaker labels of the rows.
Labels(rows) == { rows[j].speaker : j \in 1..Len(rows) }

\* The segments worker t has labelled: <<segment, rows, speaker>>.
Labelled(t) ==
    { <<loc[t].segments[i], loc[t].diar_rows, loc[t].final_segments[i].speaker>> :
          i \in 1..Len(loc[t].final_segments) }

\* C13: every labelled segment, whatever its duration, carries a speaker
\* label of the rows when there are rows and SPEAKER_0 when there are none,
\* and never SPEAKER_UNKNOWN.
C13_SpeakerIsALabelOrFallback ==
    \A t \in Threads :
        /\ pc[t] \in {"spk_next", "respond"}
               => Len(loc[t].final_segments) = Len(loc[t].segments)
        /\ \A x \in Labelled(t) :
               /\ x[3] # "SPEAKER_UNKNOWN"
               /\ IF Len(x[2]) > 0 THEN x[3] \in Labels(x[2])
                  ELSE x[3] = "SPEAKER_0"

\* A segment that ends before it starts was given the speaker of the second
\* of two rows with different speakers.
C13_Witness ==
    \E x \in Labelled(1) :
        /\ x[1].end < x[1].start
        /\ Len(x[2]) = 2
        /\ x[2][1].speaker # x[2][2].speaker
        /\ x[3] = x[2][2].speaker

\* The segment lies fully inside the row.
Contains(row, seg) == row.start <= seg.start /\ seg.end <= row.end

\* The rows of the list that contain the segment.
Containing(seg, rows) == { j \in 1..Len(rows) : Contains(rows[j], seg) }

\* C14: the overlap of a segment with a row that contains it is the
\* segment's duration, and a segment contained in exactly one row is given
\* that row's speaker; stated for the segments with start <= end, those of
\* zero duration included.
C14_UniqueContainingIntervalSelected ==
    \A t \in Threads : \A x \in Labelled(t) :
        LET seg  == x[1]
            rows == x[2]
        IN  seg.start <= seg.end =>
                /\ \A j \in Containing(seg, rows) :
                       overlap(seg, rows[j]) = seg.end - seg.start
                /\ \A j \in Containing(seg, rows) :
                       Containing(seg, rows) = {j} => x[3] = rows[j].speaker

\* The greatest overlap of the segment with a row, and the first row that
\* has it.
MaxOverlap(seg, rows) ==
    LET ovs == { overlap(seg, rows[j]) : j \in 1..Len(rows) }
    IN  CHOOSE m \in ovs : \A o \in ovs : o <= m

FirstWithMaxOverlap(seg, rows) ==
    LET m == MaxOverlap(seg, rows)
    IN  CHOOSE j \in 1..Len(rows) :
            /\ overlap(seg, rows[j]) = m
            /\ \A i \in 1..(j - 1) : overlap(seg, rows[i]) < m

\* Twice the distance between the midpoints of the segment and the row.
MidDist(seg, row) == Abs((seg.start + seg.end) - (row.start + row.end))

\* C15: a segment that overlaps some row is given the speaker of the row
\* with the greatest overlap, the earliest such row among equals, whatever
\* the midpoints are.
C15_GreatestOverlapFirstInOrder ==
    \A t \in Threads : \A x \in Labelled(t) :
        LET seg  == x[1]
            rows == x[2]
        IN  Len(rows) > 0 /\ MaxOverlap(seg, rows) > 0
                => x[3] = rows[FirstWithMaxOverlap(seg, rows)].speaker

\* Two rows with different speakers overlap the segment equally; the first
\* gave its speaker although the midpoint of the second is nearer.
C15_Witness ==
    \E x \in Labelled(1) :
        LET seg  == x[1]
            rows == x[2]
        IN  /\ Len(rows) = 2
            /\ overlap(seg, rows[1]) > 0
            /\ overlap(seg, rows[1]) = overlap(seg, rows[2])
            /\ rows[1].speaker # rows[2].speaker
            /\ MidDist(seg, rows[2]) < MidDist(seg, rows[1])
            /\ x[3] = rows[1].speaker

\* The first row whose midpoint is nearest to the segment's.
FirstNearest(seg, rows) ==
    CHOOSE j \in 1..Len(rows) :
        /\ \A i \in 1..Len(rows) : MidDist(seg, rows[j]) <= MidDist(seg, rows[i])
        /\ \A i \in 1..(j - 1) : MidDist(seg, rows[i]) > MidDist(seg, rows[j])

\* C16: a segment that overlaps no row is given the speaker of the row
\* whose midpoint is nearest to its own, the earliest such row among
\* equals; segment [10.0, 10.5] with rows (0, 5, A), (20, 25, B) is given A.
C16_NearestMidpointFirstInOrder ==
    \A t \in Threads : \A x \in Labelled(t) :
        LET seg  == x[1]
            rows == x[2]
        IN  /\ Len(rows) > 0 /\ MaxOverlap(seg, rows) = 0
                => x[3] = rows[FirstNearest(seg, rows)].speaker
            /\ <<seg>> = FallbackExample.segments /\ rows = FallbackExample.diar_rows
                => x[3] = "A"

\* The example has been labelled, and it was the fallback that labelled it.
C16_Witness ==
    \E x \in Labelled(1) :
        /\ <<x[1]>> = FallbackExample.segments
        /\ x[2] = FallbackExample.diar_rows
        /\ MaxOverlap(x[1], x[2]) = 0
        /\ x[3] = "A"

\* The speaker whose audio worker t has aggregated and is classifying, its
\* rows, and the pcs at which that is so.
ClassifyPcs == GenderPcs \cup EmotionPcs
SpeakerRows(t) == rows_of(loc[t].diar_rows, Head(loc[t].todo))

\* The length in ticks of the rows, taken as they are given.
RECURSIVE RowTicks(_)
RowTicks(rows) ==
    IF Len(rows) = 0 THEN 0
    ELSE Max2(0, rows[1].end - rows[1].start) + RowTicks(Tail(rows))

\* C17: when the rows of a speaker sum to more than max_total_sec, the
\* buffer concat_speaker_audio returns is not longer than max_total_sec.
C17_BufferWithinCap ==
    \A t \in Threads :
        /\ pc[t] \in ClassifyPcs
        /\ RowTicks(SpeakerRows(t)) > MAX_TOTAL_TICKS
        => loc[t].y_spk.samples <= MAX_TOTAL_TICKS * SAMPLES_PER_TICK

\* The samples of the audio that lie inside the row (none for a row with
\* end <= start), and those inside the rows of a list.
RowSamples(r) ==
    IF r.end <= r.start THEN 0
    ELSE Max2(0, Min2(r.end * SAMPLES_PER_TICK, AUDIO_SAMPLES)
                     - Max2(0, r.start * SAMPLES_PER_TICK))

RECURSIVE UsableSamples(_)
UsableSamples(rows) ==
    IF Len(rows) = 0 THEN 0
    ELSE RowSamples(rows[1]) + UsableSamples(Tail(rows))

\* C18: the step that aggregates a speaker's audio gets none exactly when
\* the speaker's usable audio is less than min_total_sec, and otherwise a
\* buffer of at least min_total_sec worth of samples.
C18_NoneExactlyWhenBelowMinimum ==
    [][\A t \in Threads :
          /\ pc[t] = "spk_next"
          /\ Len(loc[t].todo) > 0
          /\ <<pc[t], loc[t]>>' # <<pc[t], loc[t]>>
          => LET least == MIN_TOTAL_TICKS * SAMPLES_PER_TICK
             IN  IF UsableSamples(SpeakerRows(t)) < least
                 THEN /\ pc'[t] = "spk_next"
                      /\ loc'[t].y_spk = NoBuffer
                      /\ Head(loc[t].todo) \in DOMAIN loc'[t].speakers
                 ELSE /\ pc'[t] \in ClassifyPcs
                      /\ ~loc'[t].y_spk.none
                      /\ loc'[t].y_spk.samples >= least]_vars

\* The rows that have samples inside the audio, the i-th of them in the
\* given order, and the sample range of a row limited to the audio.
Contributing(rows) == { j \in 1..Len(rows) : RowSamples(rows[j]) > 0 }

NthContributing(rows, i) ==
    CHOOSE j \in Contributing(rows) :
        Cardinality({ m \in Contributing(rows) : m < j }) = i - 1

Slice(r) ==
    <<Max2(0, r.start * SAMPLES_PER_TICK),
      Min2(r.end * SAMPLES_PER_TICK, AUDIO_SAMPLES)>>

\* C19: the clips of the buffer are, in the given order of the rows, the
\* sample ranges of the rows that have samples inside the audio, each
\* limited to the audio; rows with end <= start or with nothing inside the
\* audio give no clip; the accumulated total is the length of the clips;
\* and rows are left out at the end only once max_total_sec is collected.
C19_SlicesInGivenOrderClipped ==
    \A t \in Threads :
        pc[t] \in ClassifyPcs =>
            LET rows == SpeakerRows(t)
                buf  == loc[t].y_spk
                n    == Len(buf.clips)
            IN  /\ n <= Cardinality(Contributing(rows))
                /\ \A i \in 1..n :
                       /\ buf.clips[i] = Slice(rows[NthContributing(rows, i)])
                       /\ 0 <= buf.clips[i][1]
                       /\ buf.clips[i][1] < buf.clips[i][2]
                       /\ buf.clips[i][2] <= AUDIO_SAMPLES
                /\ buf.total = buf.samples
                /\ n < Cardinality(Contributing(rows))
                       => buf.samples >= MAX_TOTAL_TICKS * SAMPLES_PER_TICK

\* The keys the speakers mapping of a response must have for the rows.
ExpectedKeys(rows) == IF Len(rows) > 0 THEN Labels(rows) ELSE {"SPEAKER_0"}

\* C20: a request about to return its response has one profile for each
\* distinct speaker label of the rows and no other (SPEAKER_0 alone when
\* there are no rows), every segment carries one of these keys, and the
\* success response is made of exactly these segments and profiles.
C20_SpeakersKeysAreTheLabels ==
    /\ [](\A t \in Threads : pc[t] = "respond" =>
             /\ DOMAIN loc[t].speakers = ExpectedKeys(loc[t].diar_rows)
             /\ Len(loc[t].final_segments) = Len(loc[t].segments)
             /\ \A i \in 1..Len(loc[t].final_segments) :
                    loc[t].final_segments[i].speaker \in DOMAIN loc[t].speakers)
    /\ [](last.kind = "success" =>
             \A i \in 1..Len(last.segments) :
                 last.segments[i].speaker \in DOMAIN last.speakers)
    /\ [][\A t \in Threads :
             last'.kind = "success" /\ last'.thread = t /\ pc[t] # "idle"
                 /\ pc'[t] = "idle"
                 => /\ pc[t] = "respond"
                    /\ last'.speakers = loc[t].speakers
                    /\ last'.segments = loc[t].final_segments]_vars

\* A request is about to answer for three rows with two speakers, one of
\* them without enough audio: two profiles.
C20_Witness ==
    \E t \in Threads :
        /\ pc[t] = "respond"
        /\ Len(loc[t].diar_rows) = 3
        /\ Cardinality(DOMAIN loc[t].speakers) = 2
        /\ \E spk \in DOMAIN loc[t].speakers : Insufficient(loc[t].diar_rows, spk)

\* The pcs inside get_diarize_pipeline and the diarization call.
DiarPcs == {"diar_check", "diar_lock", "diar_ctor", "diarize"}

\* The response has the shape of an analysis without speakers: every
\* segment of segs, in order, labelled SPEAKER_0, and the one all-default
\* profile of SPEAKER_0.
SyntheticShape(r, segs) ==
    /\ r.kind = "success"
    /\ Len(r.segments) = Len(segs)
    /\ \A i \in 1..Len(segs) :
           /\ r.segments[i].start = segs[i].start
           /\ r.segments[i].end = segs[i].end
           /\ r.segments[i].speaker = "SPEAKER_0"
    /\ DOMAIN r.speakers = {"SPEAKER_0"}
    /\ AllDefault(r.speakers["SPEAKER_0"])

\* C21: with ENABLE_DIARIZATION off no request is ever inside
\* get_diarize_pipeline or the diarization call, the diarization
\* constructor is never invoked and no request has rows; a request that
\* returns from its return statement with the flag off, or with the flag on
\* and no rows, answers with every segment labelled SPEAKER_0 and the one
\* all-default profile of SPEAKER_0.
C21_NoDiarizationGivesSyntheticSpeaker ==
    /\ [](~ENABLE_DIARIZATION =>
             /\ ctor_calls["diarize"] = 0
             /\ diarize_pipeline = 0
             /\ \A t \in Threads :
                    pc[t] \notin DiarPcs /\ Len(loc[t].diar_rows) = 0)
    /\ [][\A t \in Threads :
             /\ pc[t] = "respond" /\ pc'[t] = "idle"
             /\ ~ENABLE_DIARIZATION \/ Len(loc[t].diar_rows) = 0
             => /\ last'.thread = t
                /\ SyntheticShape(last', loc[t].segments)]_vars
    /\ [](~ENABLE_DIARIZATION /\ last.kind = "success"
             => \E segs \in Transcripts : SyntheticShape(last, segs))

\* With the flag off a readiness probe answered ok and after it an analyze
\* request succeeded with its two segments.
C21_Witness ==
    /\ ~ENABLE_DIARIZATION
    /\ last.kind = "success"
    /\ last.prev = "ready"
    /\ Len(last.segments) = 2
    /\ ctor_calls["diarize"] = 0

\* C22: requests enter the gate in the order in which they reached it.
\* Under SpecGate worker 2 reached the gate before the run's one further
\* request, which is the request of any other worker found at the gate: that
\* request does not enter while worker 2 still waits.
C22_AdmittedInArrivalOrder ==
    [][\A t \in Threads \ {2} :
          pc[2] = "gate" /\ pc[t] = "gate" => pc'[t] # "resolve"]_vars

\* C23: a thread serving /health reports for each kind, at the moment it
\* reads it, whether the kind is ready; its steps change no handle, invoke
\* no constructor and take neither lock; it holds neither lock and its next
\* step is never blocked, whatever the other threads hold; and what it
\* returns is what it read.
C23_HealthReportsWithoutEffect ==
    /\ [](\A t \in Threads : handler[t] = "health" =>
             /\ state_lock # t /\ analyze_lock # t
             /\ ENABLED (health_read(t) \/ health_return(t)))
    /\ [][\A t \in Threads :
             (handler[t] = "health" \/ handler'[t] = "health") /\ pc'[t] # pc[t]
                 => UNCHANGED <<handles, counts, state_lock, analyze_lock, flags>>]_vars
    /\ [][\A t \in Threads :
             pc[t] = "health" /\ <<pc[t], loc[t]>>' # <<pc[t], loc[t]>>
                 => LET n == Len(loc[t].report) + 1
                    IN  /\ n <= Len(HealthKinds)
                        /\ loc'[t].report = Append(loc[t].report, Ready(HealthKinds[n]))]_vars
    /\ [][\A t \in Threads :
             pc[t] = "health_return" /\ pc'[t] # pc[t]
                 => /\ last'.kind = "health" /\ last'.thread = t
                    /\ <<last'.whisper_loaded, last'.diarize_loaded,
                          last'.gender_loaded, last'.emotion_loaded>> = loc[t].report]_vars

\* /health has answered that the diarization pipeline is not loaded while
\* an analyze request, inside the gate, holds the registry lock and is
\* constructing it.
C23_Witness ==
    /\ last.kind = "health"
    /\ last.whisper_loaded /\ ~last.diarize_loaded
    /\ \E t \in Threads :
           pc[t] = "diar_ctor" /\ state_lock = t /\ analyze_lock = t

\* C24: a /ready request ends with the ready response and never raises;
\* it answers ok = true only with every enabled kind ready at that moment,
\* and a constructor that raises inside it makes it answer ok = false with
\* an error.
C24_ReadyReportsAggregate ==
    [][\A t \in Threads :
          handler[t] = "ready" /\ pc'[t] # pc[t] =>
              /\ pc'[t] = "idle" =>
                     /\ last'.thread = t
                     /\ last'.kind = "ready"
                     /\ last'.ok => \A k \in Kinds : Enabled(k) => Ready(k)'
                     /\ ~last'.ok => "error" \in DOMAIN last'
              /\ (\E k \in Kinds : pc[t] \in CtorPcs(k)) /\ faults' # faults
                     => /\ pc'[t] = "idle"
                        /\ ~last'.ok]_vars

\* The pcs at which a constructor or a model is running.
AllCtorPcs == UNION { CtorPcs(k) : k \in Kinds }
InferPcs == {"transcribe", "diarize", "gender_infer", "emotion_infer"}

\* C25: at most one thread is inside a constructor or a model call, and no
\* thread is inside a constructor while another thread's analyze request is
\* inside the gated span.
C25_HeavyWorkForOneRequest ==
    /\ Cardinality({ t \in Threads : pc[t] \in AllCtorPcs \cup InferPcs }) <= 1
    /\ \A t1, t2 \in Threads :
           t1 # t2 /\ InSpan(t1) => pc[t2] \notin AllCtorPcs

\* The bucket of a median pitch: exactly one of the four for every value.
Bucket(med) ==
    CASE med >= 250 -> "child"
      [] 180 <= med /\ med < 250 -> "young_adult"
      [] 120 <= med /\ med < 180 -> "adult"
      [] med < 120 -> "senior"

\* The age group and pitch the step stored: in the locals when the emotion
\* step follows, in the speaker's profile when it does not.
AgeAfter(l, spk) ==
    IF ENABLE_EMOTION THEN l.age
    ELSE <<l.speakers[spk].age_group, l.speakers[spk].pitch_median_hz>>

\* C26: the age step gives ("unknown", None) for fewer than 20 voiced
\* frames, and otherwise the bucket of the median with the median itself:
\* child from 250, young_adult on [180, 250), adult on [120, 180), senior
\* below 120; 200 Hz is young_adult and 100 Hz senior; the result depends
\* on nothing but the two numbers.
C26_AgeGroupFromVoicedAndMedian ==
    [][\A t \in Threads :
          pc[t] = "age_emotion" /\ pc'[t] # pc[t] /\ loc[t].y_spk.f0v # <<>>
              => LET voiced == loc[t].y_spk.f0v[1]
                     med    == loc[t].y_spk.f0v[2]
                     spk    == Head(loc[t].todo)
                     age    == AgeAfter(loc'[t], spk)
                 IN  /\ voiced < 20 => age[1] = "unknown" /\ age[2] = "null"
                     /\ voiced >= 20 => age[1] = Bucket(med) /\ age[2] = med
                     /\ voiced >= 20 /\ med = 200 => age[1] = "young_adult"
                     /\ voiced >= 20 /\ med = 100 => age[1] = "senior"
                     /\ voiced >= 20 /\ med \in {120, 180, 250}
                            => age[1] = Bucket(med + 1) /\ age[1] # Bucket(med - 1)]_vars

\* An array with exactly 20 voiced frames and a median on the boundary
\* 180 has been put into the young_adult bucket.
C26_Witness ==
    /\ pc[1] = "emotion_check"
    /\ loc[1].y_spk.f0v = <<20, 180>>
    /\ loc[1].age[1] = "young_adult"
    /\ loc[1].age[2] = 180

\* The stage of analyze a pc belongs to: 1 resolve_input, 2 transcribe,
\* 3 diarize, 4 align, 5 aggregate_and_classify, 6 respond; 0 outside.
StageOf(p) ==
    CASE p = "resolve" -> 1
      [] p \in {"whisper_check", "whisper_lock", "whisper_ctor", "transcribe"} -> 2
      [] p \in DiarPcs -> 3
      [] p = "align" -> 4
      [] p \in {"spk_next"} \cup ClassifyPcs -> 5
      [] p = "respond" -> 6
      [] OTHER -> 0

\* The pc at which a stage completes.
LastPcOf(stage) ==
    CASE stage = 1 -> "resolve"
      [] stage = 2 -> "transcribe"
      [] stage = 3 -> "diarize"
      [] stage = 4 -> "align"
      [] stage = 5 -> "spk_next"
      [] stage = 6 -> "respond"

\* The stage that follows a completed stage of request t.
StageAfter(t, stage) ==
    CASE stage = 1 -> 2
      [] stage = 2 -> IF ENABLE_DIARIZATION THEN 3 ELSE 4
      [] stage = 3 -> 4
      [] stage = 4 -> IF Len(loc[t].diar_rows) > 0 THEN 5 ELSE 6
      [] stage = 5 -> 6
      [] stage = 6 -> 0

\* C27: an analyze request enters the gated span at resolve_input; each of
\* its steps stays in its stage, or completes the stage without a failure
\* and starts the one that follows (diarize only when enabled,
\* aggregate_and_classify only with rows), or ends the request; the
\* request ends with success from respond only, and a failure in the
\* transcription stage ends it with the error response at once, with the
\* diarization constructor's and the classifiers' call counts untouched.
C27_StagesInFixedOrder ==
    [][\A t \in Threads :
          handler[t] = "analyze" /\ pc'[t] # pc[t] =>
              LET from == StageOf(pc[t])
                  to   == StageOf(pc'[t])
              IN  /\ pc[t] = "gate" => to = 1
                  /\ from > 0 /\ to # from /\ pc'[t] # "idle" =>
                         /\ pc[t] = LastPcOf(from)
                         /\ to = StageAfter(t, from)
                         /\ faults' = faults
                  /\ from > 0 /\ pc'[t] = "idle" =>
                         /\ last'.thread = t
                         /\ last'.kind = "success" <=> from = 6
                  /\ from = 2 /\ faults' # faults =>
                         /\ pc'[t] = "idle"
                         /\ last'.kind = "error"
                         /\ \A k \in Kinds \ {"whisper"} :
                                ctor_calls'[k] = ctor_calls[k]]_vars

\* With diarization enabled a request failed inside transcribe and was the
\* first to get that far: no diarization pipeline was ever constructed.
C27_Witness ==
    /\ ENABLE_DIARIZATION
    /\ last.kind = "error"
    /\ last.message = "transcribe"
    /\ ctor_calls["diarize"] = 0

\* The step of t executes an assignment to one of the globals of the
\* handles: it changes one, or it is the "_gender_ok = False" of line 174
\* or the "_emotion_ok = False" of line 199, which store the value the flag
\* already has.
WritesHandle(t) ==
    /\ pc'[t] # pc[t]
    /\ \/ handles' # handles
       \/ pc[t] = "gender_check" /\ ~ENABLE_GENDER
       \/ pc[t] = "emotion_check" /\ ~ENABLE_EMOTION

RegistryLockPcs == { LockPc(k) : k \in Kinds }

Blocked(t) ==
    \/ pc[t] = "gate" /\ analyze_lock # 0
    \/ pc[t] \in RegistryLockPcs /\ state_lock # 0

HolderAwaitedBy(t) == IF pc[t] = "gate" THEN analyze_lock ELSE state_lock

\* C29: a thread requesting the registry lock does not hold it, and holds
\* the gate exactly when it serves analyze; a thread requesting the gate
\* holds neither lock; the holder of the registry lock is inside a
\* constructor, so it requests nothing and gives the lock back when the
\* constructor returns or raises; /health holds and requests nothing.  So a
\* blocked thread waits for a thread that is running or that waits, for
\* the registry lock, on a running one; and whenever a request is in
\* progress some request can take its next step.
C29_NoDeadlock ==
    /\ \A t \in Threads :
           /\ pc[t] \in RegistryLockPcs =>
                  /\ state_lock # t
                  /\ analyze_lock = t <=> handler[t] = "analyze"
           /\ pc[t] = "gate" => state_lock # t /\ analyze_lock # t
           /\ state_lock = t => pc[t] \in AllCtorPcs
           /\ pc[t] \notin AllCtorPcs => state_lock # t
           /\ handler[t] = "health" =>
                  state_lock # t /\ analyze_lock # t /\ ~Blocked(t)
           /\ Blocked(t) =>
                  LET h == HolderAwaitedBy(t)
                  IN  /\ h \in Threads \ {t}
                      /\ pc[h] # "idle"
                      /\ Blocked(h) => /\ pc[h] \in RegistryLockPcs
                                       /\ ~Blocked(state_lock)
    /\ (\E t \in Threads : pc[t] # "idle")
           => ENABLED (NextAll /\ requests' = requests)

\* An analyze request, inside the gate, waits for the registry lock, which
\* a readiness request holds while it constructs.
C29_Witness ==
    \E t1, t2 \in Threads :
        /\ handler[t1] = "analyze" /\ pc[t1] \in RegistryLockPcs
        /\ analyze_lock = t1
        /\ Blocked(t1)
        /\ handler[t2] = "ready" /\ state_lock = t2

\* C30: under SpecFair every analyze request that has started returns, and
\* what it returns is a success, the tagged error or an HTTP rejection;
\* every request waiting for the gate is admitted; and the request that
\* holds the gate gives it up.
C30_EveryRequestReturns ==
    /\ \A t \in Threads : handler[t] = "analyze" ~> handler[t] = "none"
    /\ \A t \in Threads : pc[t] = "gate" ~> pc[t] = "resolve"
    /\ \A t \in Threads : analyze_lock = t ~> analyze_lock # t
    /\ [][\A t \in Threads :
             handler[t] = "analyze" /\ handler'[t] = "none"
                 => /\ last'.thread = t
                    /\ last'.kind \in {"success", "error", "http"}]_vars

\* A request waits for the gate while the request that holds it is inside
\* the constructor of the emotion classifier, under the registry lock.
C30_Witness ==
    \E t1, t2 \in Threads :
        /\ pc[t1] = "gate"
        /\ analyze_lock = t2
        /\ pc[t2] = "emotion_ctor"
        /\ state_lock = t2

====
